---- MODULE Spec2Model ----
(***************************************************************************)
(* Retrieval-and-conversation pipeline of the RAG chatbot backend:         *)
(*   - the vector index adapter   (backend/src/core/vector_db.py)          *)
(*   - the retrieval engine       (backend/src/services/retrieval.py)      *)
(*   - the conversation store     (backend/src/services/storage.py)        *)
(*   - the chat turn handler      (backend/src/api/v1/chat.py)             *)
(* External providers (embedding, vector store ranking, language model,    *)
(* relational store) are modelled by what the code consumes from them.     *)
(***************************************************************************)
EXTENDS Integers, Sequences, FiniteSets, TLC

(***************************************************************************)
(* Bounds of the model                                                     *)
(***************************************************************************)
MaxBatch == 2      \* longest sequence handed to one add_embeddings call

ContentIds == {"doc_a", "doc_b"}
Sections   == {"Intro", "Body"}
Vec        == {0, 1, 2}          \* embedding vectors, on a line
QueryVecs  == {0, 1}             \* embeddings of the queries searched for
None       == "None"

\* str(hit.id) of a numeric native point id
NatStr == <<"0", "1", "2", "3", "4", "5", "6", "7", "8", "9">>
StrOf(n) == NatStr[n + 1]

Min(a, b) == IF a < b THEN a ELSE b
Abs(x) == IF x < 0 THEN 0 - x ELSE x

SeqsUpTo(S, n) == UNION {[1..k -> S] : k \in 0..n}

VARIABLES
  points,        \* the collection: native point id -> [vector, payload]
  supplied,      \* native point id -> content id the caller supplied for it
  callsWith,     \* content id -> add_embeddings calls that carried it (2 = more than one)
  reusedId,      \* the last add_embeddings call assigned an id an earlier call used
  searchHits,    \* native ids of the hits of the last search, in rank order
  searchResult,  \* list returned by the last search_similar call
  searchStatus,  \* "none" | "ok" | "raised"
  formsTried     \* call forms the last search_similar tried, in order

vecVars == <<points, supplied, callsWith, reusedId, searchHits, searchResult,
             searchStatus, formsTried>>

VARIABLES
  sessions,      \* table conversation_sessions: id -> row
  queries,       \* table user_queries: rows in insertion order
  responses,     \* table generated_responses: rows in insertion order
  now,           \* the wall clock read by datetime.now()
  started,       \* chat requests received so far
  turn           \* per worker: the chat request it is serving and its locals

chatVars == <<sessions, queries, responses, now, started, turn>>

VARIABLES
  rcall,         \* an operation run on its own: its name and what it is given
  rret           \* what it returned, in order; <<>> while it has not

retrVars == <<rcall, rret>>

vars == <<vecVars, chatVars, retrVars>>

(***************************************************************************)
(* Payload dictionaries                                                    *)
(***************************************************************************)
\* dict.get(key, default)
PayloadGet(payload, key, default) ==
  IF key \in DOMAIN payload THEN payload[key] ELSE default

\* payloads a caller may hand in: 'id' always, 'section' possibly absent
CallerPayloads ==
  {[id |-> "chunk_0", section |-> "Intro"], [id |-> "chunk_1"]}

\* (content id, embedding, payload) triples a caller may hand in: one content
\* under two content ids, and one content id with two contents
CallerItems ==
  {<<"doc_a", 0, [id |-> "chunk_0", section |-> "Intro"]>>,
   <<"doc_b", 0, [id |-> "chunk_0", section |-> "Intro"]>>,
   <<"doc_b", 2, [id |-> "chunk_1"]>>}

\* payload.copy(); payload_with_original_id['original_content_id'] = content_id
WithOriginalId(payload, content_id) ==
  [k \in DOMAIN payload \cup {"original_content_id"} |->
     IF k = "original_content_id" THEN content_id ELSE payload[k]]

(***************************************************************************)
(* VectorDB.add_embeddings                                                 *)
(***************************************************************************)
\* point_id = i
PointId(i, used) == i

\* the points list built by the loop over enumerate(zip(...)); i is 0-based
BuildPoints(content_ids, embeddings, payloads, used) ==
  LET n == Min(Len(content_ids), Min(Len(embeddings), Len(payloads)))
  IN [i \in 1..n |->
        [id      |-> PointId(i - 1, used),
         vector  |-> embeddings[i],
         payload |-> WithOriginalId(payloads[i], content_ids[i])]]

\* client.upsert: a point with an existing id is replaced
Upsert(coll, pts) ==
  LET ids == {pts[i].id : i \in 1..Len(pts)}
      \* the last point of the batch carrying an id wins
      last(n) == CHOOSE i \in 1..Len(pts) :
                   /\ pts[i].id = n
                   /\ \A j \in 1..Len(pts) : pts[j].id = n => j <= i
  IN [n \in DOMAIN coll \cup ids |->
        IF n \in ids
          THEN [vector |-> pts[last(n)].vector, payload |-> pts[last(n)].payload]
          ELSE coll[n]]

add_embeddings(content_ids, embeddings, payloads) ==
  /\ LET pts == BuildPoints(content_ids, embeddings, payloads, DOMAIN points)
         ids == {pts[i].id : i \in 1..Len(pts)}
         cids == {content_ids[i] : i \in 1..Len(pts)}
     IN /\ points' = Upsert(points, pts)
        /\ supplied' = [n \in DOMAIN supplied \cup ids |->
              IF n \in ids
                THEN content_ids[CHOOSE i \in 1..Len(pts) :
                       /\ pts[i].id = n
                       /\ \A j \in 1..Len(pts) : pts[j].id = n => j <= i]
                ELSE supplied[n]]
        /\ callsWith' = [c \in ContentIds |->
              IF c \in cids THEN Min(callsWith[c] + 1, 2) ELSE callsWith[c]]
        /\ reusedId' = (ids \cap DOMAIN points # {})
  /\ searchHits' = <<>>
  /\ searchResult' = <<>>
  /\ searchStatus' = "none"
  /\ formsTried' = <<>>

\* client.delete_collection: every point is dropped
delete_collection ==
  /\ points' = <<>>
  /\ supplied' = <<>>
  /\ callsWith' = [c \in ContentIds |-> 0]
  /\ reusedId' = FALSE
  /\ searchHits' = <<>>
  /\ searchResult' = <<>>
  /\ searchStatus' = "none"
  /\ formsTried' = <<>>

(***************************************************************************)
(* VectorDB.search_similar                                                 *)
(***************************************************************************)
\* similarity the store reports for a point (stand-in for cosine)
Score(q, v) == 0 - Abs(q - v)

\* the store's ranking: descending score, ties in store order
RECURSIVE Ranked(_, _, _)
Ranked(q, coll, ids) ==
  IF ids = {} THEN <<>>
  ELSE LET best == CHOOSE n \in ids : \A m \in ids :
                      \/ Score(q, coll[n].vector) > Score(q, coll[m].vector)
                      \/ /\ Score(q, coll[n].vector) = Score(q, coll[m].vector)
                         /\ n <= m
       IN <<best>> \o Ranked(q, coll, ids \ {best})

\* hits of client.query_points / client.search with limit
StoreHits(q, limit, coll) ==
  LET r == Ranked(q, coll, DOMAIN coll)
  IN SubSeq(r, 1, Min(limit, Len(r)))

\* a search that surfaces the store's own point id
HitContentId_NativeId(payload, nid) == StrOf(nid)

\* content_id = hit.payload.get('original_content_id', str(hit.id))
HitContentId(payload, nid) ==
  PayloadGet(payload, "original_content_id", StrOf(nid))

\* the results list built from the hits
SearchResults(q, hits, coll) ==
  [i \in 1..Len(hits) |->
     [id      |-> HitContentId(coll[hits[i]].payload, hits[i]),
      payload |-> coll[hits[i]].payload,
      score   |-> Score(q, coll[hits[i]].vector)]]

\* what one search_similar call does against collection coll: the primary call
\* form, then the alternate one, raising when both have failed
\* the method without its second call form
SearchSimilar_NoAlternate(q, limit, primaryFails, alternateFails, coll) ==
  IF ~primaryFails
    THEN [status  |-> "ok",
          forms   |-> <<"query_points">>,
          hits    |-> StoreHits(q, limit, coll),
          results |-> SearchResults(q, StoreHits(q, limit, coll), coll)]
    ELSE [status  |-> "raised",
          forms   |-> <<"query_points">>,
          hits    |-> <<>>,
          results |-> <<>>]

SearchSimilar(q, limit, primaryFails, alternateFails, coll) ==
  IF ~primaryFails
    THEN [status  |-> "ok",
          forms   |-> <<"query_points">>,
          hits    |-> StoreHits(q, limit, coll),
          results |-> SearchResults(q, StoreHits(q, limit, coll), coll)]
    ELSE IF ~alternateFails
      THEN [status  |-> "ok",
            forms   |-> <<"query_points", "search">>,
            hits    |-> StoreHits(q, limit, coll),
            results |-> SearchResults(q, StoreHits(q, limit, coll), coll)]
      ELSE [status  |-> "raised",
            forms   |-> <<"query_points", "search">>,
            hits    |-> <<>>,
            results |-> <<>>]

search_similar(q, limit, primaryFails, alternateFails) ==
  /\ LET r == SearchSimilar(q, limit, primaryFails, alternateFails, points)
     IN /\ formsTried' = r.forms
        /\ searchStatus' = r.status
        /\ searchHits' = r.hits
        /\ searchResult' = r.results
  /\ UNCHANGED <<points, supplied, callsWith, reusedId>>

(***************************************************************************)
(* The vector index adapter under arbitrary calls                          *)
(***************************************************************************)
\* no chat request is served
ChatIdle ==
  /\ sessions = <<>>
  /\ queries = <<>>
  /\ responses = <<>>
  /\ now = 0
  /\ started = 0
  /\ turn = <<>>

\* no service method is called on its own
NoRetrievalCall ==
  /\ rcall = <<>>
  /\ rret = <<>>

InitVector ==
  /\ ChatIdle
  /\ NoRetrievalCall
  /\ points = <<>>
  /\ supplied = <<>>
  /\ callsWith = [c \in ContentIds |-> 0]
  /\ reusedId = FALSE
  /\ searchHits = <<>>
  /\ searchResult = <<>>
  /\ searchStatus = "none"
  /\ formsTried = <<>>

AddEmbeddingsCall ==
  \E items \in SeqsUpTo(CallerItems, MaxBatch) :
    add_embeddings([i \in 1..Len(items) |-> items[i][1]],
                   [i \in 1..Len(items) |-> items[i][2]],
                   [i \in 1..Len(items) |-> items[i][3]])

SearchSimilarCall ==
  \E q \in QueryVecs, limit \in 1..MaxBatch,
     primaryFails \in BOOLEAN, alternateFails \in BOOLEAN :
    /\ (alternateFails => primaryFails)   \* the alternate form is only ever tried second
    /\ search_similar(q, limit, primaryFails, alternateFails)

NextVector ==
  \/ AddEmbeddingsCall /\ UNCHANGED <<chatVars, retrVars>>
  \/ delete_collection /\ UNCHANGED <<chatVars, retrVars>>
  \/ SearchSimilarCall /\ UNCHANGED <<chatVars, retrVars>>

SpecVector == InitVector /\ [][NextVector]_vars

(***************************************************************************)
(* Embedding provider, as the retrieval engine consumes it                 *)
(***************************************************************************)
QueryTexts == {"q0", "q2"}
ResponseText == "ans"

\* a text is the sequence of the pieces an f-string puts together; the
\* provider's vector for it depends on all of them
TokenCode(tok) ==
  CASE tok = "q0" -> 0
    [] tok = "q2" -> 2
    [] tok = ResponseText -> 1
    [] OTHER -> 1

RECURSIVE SumCodes(_)
SumCodes(tokens) ==
  IF tokens = <<>> THEN 0
  ELSE TokenCode(Head(tokens)) + SumCodes(Tail(tokens))

\* response.embeddings[0] of client.embed(texts=[query_text], ...)
generate_query_embedding(tokens) == SumCodes(tokens) % 3

(***************************************************************************)
(* RetrievalService                                                        *)
(***************************************************************************)
\* RetrievedContext(id=result['id'], content_id=payload.get('id', ''), ...)
RetrievedContextOf(result) ==
  [id               |-> result.id,
   content_id       |-> PayloadGet(result.payload, "id", ""),
   section          |-> PayloadGet(result.payload, "section", ""),
   similarity_score |-> result.score]

\* the contexts built in the opposite order of the results
ContextsOf_Reversed(results) ==
  [i \in 1..Len(results) |-> RetrievedContextOf(results[Len(results) + 1 - i])]

ContextsOf(results) ==
  [i \in 1..Len(results) |-> RetrievedContextOf(results[i])]

\* the fallback calling retrieve_context(query), top_k left at its default
FallbackTopK_Default(top_k) == 5

\* top_k handed on by the fallback of the conversation-fused retrieval
FallbackTopK(top_k) == top_k

\* RetrievalService.retrieve_context; query_embedding is <<>> when not attached
retrieve_context(query, top_k, embedFails, searchFails, coll) ==
  LET attached == query.query_embedding # <<>>
      calls == IF attached THEN <<>> ELSE <<"embed">>
  IN IF ~attached /\ embedFails
       THEN [status |-> "raised", contexts |-> <<>>, calls |-> calls]
       ELSE LET qe == IF attached THEN query.query_embedding[1]
                      ELSE generate_query_embedding(<<query.query_text>>)
                r == SearchSimilar(qe, top_k, searchFails, searchFails, coll)
            IN IF r.status = "raised"
                 THEN [status |-> "raised", contexts |-> <<>>,
                       calls |-> calls \o <<"search">>]
                 ELSE [status |-> "ok", contexts |-> ContextsOf(r.results),
                       calls |-> calls \o <<"search">>]

\* conversation_history[-3:]
LastItems(history, n) ==
  SubSeq(history, IF Len(history) > n THEN Len(history) - n + 1 ELSE 1, Len(history))

\* "Q: {query} A: {response}" for each item, then "Current question: {query_text}"
RECURSIVE ConversationContext(_)
ConversationContext(items) ==
  IF items = <<>> THEN <<>>
  ELSE <<Head(items).query, Head(items).response>> \o ConversationContext(Tail(items))

EnhancedQuery(query_text, history) ==
  ConversationContext(LastItems(history, 3)) \o <<query_text>>

\* the method without its except clause: a failure of the fused path is raised
retrieve_context_with_conversation_history_NoFallback(query, history, top_k, fusedEmbedFails, fusedSearchFails, embedFails, searchFails, coll) ==
  LET r == SearchSimilar(
             generate_query_embedding(EnhancedQuery(query.query_text, history)),
             top_k, fusedSearchFails, fusedSearchFails, coll)
  IN IF fusedEmbedFails
       THEN [status |-> "raised", contexts |-> <<>>, calls |-> <<"embed">>,
             fellBack |-> FALSE]
       ELSE IF r.status = "raised"
         THEN [status |-> "raised", contexts |-> <<>>,
               calls |-> <<"embed", "search">>, fellBack |-> FALSE]
         ELSE [status |-> "ok", contexts |-> ContextsOf(r.results),
               calls |-> <<"embed", "search">>, fellBack |-> FALSE]

\* RetrievalService.retrieve_context_with_conversation_history
retrieve_context_with_conversation_history(query, history, top_k, fusedEmbedFails, fusedSearchFails, embedFails, searchFails, coll) ==
  LET fallback == retrieve_context(query, FallbackTopK(top_k), embedFails,
                                   searchFails, coll)
      r == SearchSimilar(
             generate_query_embedding(EnhancedQuery(query.query_text, history)),
             top_k, fusedSearchFails, fusedSearchFails, coll)
  IN IF fusedEmbedFails
       THEN [status |-> fallback.status, contexts |-> fallback.contexts,
             calls |-> <<"embed">> \o fallback.calls, fellBack |-> TRUE]
       ELSE IF r.status = "raised"
         THEN [status |-> fallback.status, contexts |-> fallback.contexts,
               calls |-> <<"embed", "search">> \o fallback.calls,
               fellBack |-> TRUE]
         ELSE [status |-> "ok", contexts |-> ContextsOf(r.results),
               calls |-> <<"embed", "search">>, fellBack |-> FALSE]

\* truth value of an Optional[str] in a condition
Truthy(s) == s # None /\ s # ""

\* the loop without its filter
SkipsSection_Never(current_section, section) == FALSE

\* the section filter: `if current_section and payload.get('section', '') == current_section`
SkipsSection(current_section, section) ==
  Truthy(current_section) /\ section = current_section

\* the loop of find_related_sections over the search results
RECURSIVE RelatedLoop(_, _, _, _)
RelatedLoop(results, current_section, top_k, acc) ==
  IF results = <<>> THEN acc
  ELSE IF SkipsSection(current_section,
                       PayloadGet(Head(results).payload, "section", ""))
    THEN RelatedLoop(Tail(results), current_section, top_k, acc)
    ELSE LET acc2 == Append(acc, RetrievedContextOf(Head(results)))
         IN IF Len(acc2) >= top_k THEN acc2
            ELSE RelatedLoop(Tail(results), current_section, top_k, acc2)

\* RetrievalService.find_related_sections
find_related_sections(query, current_section, top_k, embedFails, searchFails, coll) ==
  LET attached == query.query_embedding # <<>>
      calls == IF attached THEN <<>> ELSE <<"embed">>
  IN IF ~attached /\ embedFails
       THEN [status |-> "raised", contexts |-> <<>>, calls |-> calls]
       ELSE LET qe == IF attached THEN query.query_embedding[1]
                      ELSE generate_query_embedding(<<query.query_text>>)
                r == SearchSimilar(qe, top_k * 2, searchFails, searchFails, coll)
            IN IF r.status = "raised"
                 THEN [status |-> "raised", contexts |-> <<>>,
                       calls |-> calls \o <<"search">>]
                 ELSE [status |-> "ok",
                       contexts |-> RelatedLoop(r.results, current_section, top_k, <<>>),
                       calls |-> calls \o <<"search">>]

(***************************************************************************)
(* StorageService: each write is one INSERT/UPDATE followed by commit, or  *)
(* rollback and re-raise                                                   *)
(***************************************************************************)
\* StorageService.get_session: <<row>> when found, <<>> for None
get_session(session_id, tbl) ==
  IF session_id \in DOMAIN tbl THEN <<tbl[session_id]>> ELSE <<>>

\* an insert that fills current_section in and leaves section_history empty
create_session_WithCurrent(session, dbFails, tbl) ==
  IF dbFails \/ session.id \in DOMAIN tbl
    THEN [status |-> "raised", table |-> tbl]
    ELSE [status |-> "ok",
          table |-> [i \in DOMAIN tbl \cup {session.id} |->
                       IF i = session.id THEN [session EXCEPT !.current_section = "Intro"]
                       ELSE tbl[i]]]

\* StorageService.create_session: the primary key rejects a second row for an id
create_session(session, dbFails, tbl) ==
  IF dbFails \/ session.id \in DOMAIN tbl
    THEN [status |-> "raised", table |-> tbl]
    ELSE [status |-> "ok",
          table |-> [i \in DOMAIN tbl \cup {session.id} |->
                       IF i = session.id THEN session ELSE tbl[i]]]

\* an update that merges the object's history into the row's instead of
\* overwriting it
update_session_Merge(session, dbFails, tbl) ==
  IF dbFails \/ session.id \notin DOMAIN tbl
    THEN [status |-> "raised", table |-> tbl]
    ELSE LET old == tbl[session.id].section_history
             new == SelectSeq(session.section_history,
                              LAMBDA x : \A i \in 1..Len(old) : old[i] # x)
         IN [status |-> "ok",
             table |-> [tbl EXCEPT ![session.id] =
                          [session EXCEPT !.section_history = old \o new]]]

\* StorageService.update_session: the row of session.id takes the object's fields
update_session(session, dbFails, tbl) ==
  IF dbFails \/ session.id \notin DOMAIN tbl
    THEN [status |-> "raised", table |-> tbl]
    ELSE [status |-> "ok", table |-> [tbl EXCEPT ![session.id] = session]]

\* the INSERT without its commit: the row is gone when the connection is reused
save_user_query_NoCommit(query, dbFails, tbl, sessTbl) ==
  IF \/ dbFails
     \/ \E i \in 1..Len(tbl) : tbl[i].id = query.id
     \/ query.session_id \notin DOMAIN sessTbl
    THEN [status |-> "raised", table |-> tbl]
    ELSE [status |-> "ok", table |-> tbl]

\* StorageService.save_user_query: INSERT, commit, then the returned row is
\* turned into a UserQuery; the query_embedding column is JSONB, which the
\* driver hands back decoded, so json.loads of it (line 182) raises when an
\* embedding was stored, after the commit
save_user_query(query, dbFails, tbl, sessTbl) ==
  IF \/ dbFails
     \/ \E i \in 1..Len(tbl) : tbl[i].id = query.id
     \/ query.session_id \notin DOMAIN sessTbl
    THEN [status |-> "raised", table |-> tbl]
    ELSE IF query.query_embedding # <<>>
      THEN [status |-> "raised", table |-> Append(tbl, query)]
      ELSE [status |-> "ok", table |-> Append(tbl, query)]

\* StorageService.save_generated_response
save_generated_response(response, dbFails, tbl) ==
  IF dbFails \/ \E i \in 1..Len(tbl) : tbl[i].id = response.id
    THEN [status |-> "raised", table |-> tbl]
    ELSE [status |-> "ok", table |-> Append(tbl, response)]

\* rows of: user_queries uq LEFT JOIN generated_responses gr ON uq.id = gr.query_id
\* WHERE uq.session_id = session_id, before the ORDER BY
RECURSIVE JoinRows(_, _, _)
JoinRows(session_id, qtbl, rtbl) ==
  IF qtbl = <<>> THEN <<>>
  ELSE LET uq == Head(qtbl)
           matches == SelectSeq(rtbl, LAMBDA gr : gr.query_id = uq.id)
           mine == IF uq.session_id # session_id THEN <<>>
                   ELSE IF matches = <<>>
                     THEN <<[query |-> uq.query_text, response |-> None,
                             timestamp |-> uq.created_at]>>
                     ELSE [i \in 1..Len(matches) |->
                             [query |-> uq.query_text,
                              response |-> matches[i].response_text,
                              timestamp |-> uq.created_at]]
       IN mine \o JoinRows(session_id, Tail(qtbl), rtbl)

\* the query without its ORDER BY: rows come back in table order
OrderedBy_TableOrder(rows) == {rows}

\* ORDER BY uq.created_at: the orders the database may return the rows in
OrderedBy(rows) ==
  {[i \in 1..Len(rows) |-> rows[f[i]]] :
     f \in {g \in [1..Len(rows) -> 1..Len(rows)] :
              /\ \A i, j \in 1..Len(rows) : i # j => g[i] # g[j]
              /\ \A i, j \in 1..Len(rows) :
                   i < j => rows[g[i]].timestamp <= rows[g[j]].timestamp}}

\* StorageService.get_session_history: the lists the call may return
get_session_history(session_id, qtbl, rtbl) ==
  OrderedBy(JoinRows(session_id, qtbl, rtbl))

(***************************************************************************)
(* AgentService.generate_response                                          *)
(***************************************************************************)
ConfidenceScore == 80      \* hundredths: confidence_score=0.8

RespId(query_id) == <<"resp", query_id>>

generate_response(query, retrieved_contexts) ==
  [id                 |-> RespId(query.id),
   session_id         |-> query.session_id,
   query_id           |-> query.id,
   response_text      |-> ResponseText,
   source_context_ids |-> [i \in 1..Len(retrieved_contexts) |-> retrieved_contexts[i].id],
   confidence_score   |-> ConfidenceScore]

(***************************************************************************)
(* The chat endpoint: one action per external call of a turn               *)
(***************************************************************************)
MaxTurns     == 2    \* chat requests followed one after the other
MaxClock     == 1    \* the clock takes the values 0..MaxClock

Workers == {1, 2}    \* the requests served at the same time
SuppliedSessionIds == {"s1"}

\* f"session_{uuid4().hex}" / f"query_{uuid4().hex}" of the n-th request
SessionUuid(n) ==
  <<"session_0", "session_1", "session_2", "session_3", "session_4">>[n + 1]
QueryUuid(n) ==
  <<"query_0", "query_1", "query_2", "query_3", "query_4">>[n + 1]

IdleTurn ==
  [pc |-> "idle", n |-> 0, session_id |-> None, query_text |-> None,
   session |-> <<>>, query |-> <<>>, history |-> <<>>, contexts |-> <<>>,
   related |-> <<>>, response |-> <<>>, calls |-> <<>>, fellBack |-> FALSE,
   failedAt |-> None, result |-> <<>>]

\* an except clause that swallows the error: the handler goes on from where it was
Failed_Swallowed(t, step, call) == [t EXCEPT !.calls = t.calls \o call]

\* an except clause that answers with what the handler has so far
Failed_PartialBody(t, step, call) ==
  [IdleTurn EXCEPT !.pc = "failed", !.n = t.n, !.session_id = t.session_id,
                   !.query_text = t.query_text, !.query = t.query,
                   !.session = t.session, !.fellBack = t.fellBack,
                   !.failedAt = step, !.calls = t.calls \o call,
                   !.result = <<[session_id |-> t.session_id, error |-> step]>>]

\* the except clause of chat: HTTP 500 carrying the cause, no response body;
\* the retrieved contexts and the generated response are dropped
Failed(t, step, call) ==
  [IdleTurn EXCEPT !.pc = "failed", !.n = t.n, !.session_id = t.session_id,
                   !.query_text = t.query_text, !.query = t.query,
                   !.session = t.session, !.fellBack = t.fellBack,
                   !.failedAt = step, !.calls = t.calls \o call]

Free(w) == turn[w].pc \in {"idle", "done", "failed"}

\* a request arrives at a free worker (the first one); line 52 settles the
\* session id
StartTurn(w, session_id, query_text, maxTurns) ==
  /\ Free(w)
  /\ \A v \in Workers : v < w => ~Free(v)
  /\ started < maxTurns
  /\ started' = started + 1
  /\ turn' = [turn EXCEPT ![w] =
       [IdleTurn EXCEPT
          !.pc = "get_session",
          !.n = started + 1,
          !.session_id = IF session_id = None THEN SessionUuid(started + 1)
                         ELSE session_id,
          !.query_text = query_text]]
  /\ UNCHANGED <<sessions, queries, responses, now>>

\* line 55: session = storage_svc.get_session(session_id)
GetSession(w, dbFails) ==
  /\ turn[w].pc = "get_session"
  /\ LET t == turn[w]
         found == get_session(t.session_id, sessions)
     IN turn' = [turn EXCEPT ![w] =
          IF dbFails THEN Failed(t, "get_session", <<"get_session">>)
          ELSE [t EXCEPT !.session = found,
                         !.calls = t.calls \o <<"get_session">>,
                         !.pc = IF found = <<>> THEN "create_session"
                                ELSE "build_query"]]
  /\ UNCHANGED <<sessions, queries, responses, now, started>>

\* lines 57-64: a new ConversationSession is created and stored
CreateSession(w, dbFails) ==
  /\ turn[w].pc = "create_session"
  /\ LET t == turn[w]
         session == [id |-> t.session_id, current_section |-> None,
                     section_history |-> <<>>, updated_at |-> now,
                     is_active |-> TRUE]
         r == create_session(session, dbFails, sessions)
     IN /\ sessions' = r.table
        /\ turn' = [turn EXCEPT ![w] =
             IF r.status = "raised"
               THEN Failed(t, "create_session", <<"create_session">>)
               ELSE [t EXCEPT !.session = <<session>>,
                              !.calls = t.calls \o <<"create_session">>,
                              !.pc = "build_query"]]
  /\ UNCHANGED <<queries, responses, now, started>>

\* lines 66-74: the UserQuery object, stamped with datetime.now(); the clock
\* has moved on since it was last read, or has not
BuildQuery(w, tick) ==
  /\ turn[w].pc = "build_query"
  /\ tick => now < MaxClock
  /\ now' = IF tick THEN now + 1 ELSE now
  /\ turn' = [turn EXCEPT ![w].pc = "save_query",
                          ![w].query =
                            <<[id |-> QueryUuid(turn[w].n),
                               query_text |-> turn[w].query_text,
                               session_id |-> turn[w].session_id,
                               query_embedding |-> <<>>,
                               created_at |-> now']>>]
  /\ UNCHANGED <<sessions, queries, responses, started>>

\* line 77: user_query = storage_svc.save_user_query(user_query)
SaveUserQuery(w, dbFails) ==
  /\ turn[w].pc = "save_query"
  /\ LET t == turn[w]
         r == save_user_query(t.query[1], dbFails, queries, sessions)
     IN /\ queries' = r.table
        /\ turn' = [turn EXCEPT ![w] =
             IF r.status = "raised"
               THEN Failed(t, "save_user_query", <<"save_user_query">>)
               ELSE [t EXCEPT !.calls = t.calls \o <<"save_user_query">>,
                              !.pc = "get_history"]]
  /\ UNCHANGED <<sessions, responses, now, started>>

\* line 80: conversation_history = storage_svc.get_session_history(session_id)
GetSessionHistory(w, dbFails) ==
  /\ turn[w].pc = "get_history"
  /\ LET t == turn[w]
     IN IF dbFails
          THEN turn' = [turn EXCEPT ![w] =
                 Failed(t, "get_session_history", <<"get_session_history">>)]
          ELSE \E h \in get_session_history(t.session_id, queries, responses) :
                 turn' = [turn EXCEPT ![w] =
                   [t EXCEPT !.history = h,
                             !.calls = t.calls \o <<"get_session_history">>,
                             !.pc = "retrieve"]]
  /\ UNCHANGED <<sessions, queries, responses, now, started>>

\* top_k defaults of the two retrieval calls the endpoint makes
RetrieveTopK == 5
RelatedTopK  == 3

\* lines 83-85: retrieval_service.retrieve_context_with_conversation_history(...)
RetrieveContext(w, fusedEmbedFails, fusedSearchFails, embedFails, searchFails) ==
  /\ turn[w].pc = "retrieve"
  /\ LET t == turn[w]
         r == retrieve_context_with_conversation_history(
                t.query[1], t.history, RetrieveTopK, fusedEmbedFails,
                fusedSearchFails, embedFails, searchFails, points)
     IN turn' = [turn EXCEPT ![w] =
          IF r.status = "raised"
            THEN Failed([t EXCEPT !.fellBack = r.fellBack], "retrieve_context", r.calls)
            ELSE [t EXCEPT !.contexts = r.contexts,
                           !.fellBack = r.fellBack,
                           !.calls = t.calls \o r.calls,
                           !.pc = "related"]]
  /\ UNCHANGED <<sessions, queries, responses, now, started>>

\* line 88: related_sections = retrieval_service.find_related_sections(user_query)
FindRelated(w, embedFails, searchFails) ==
  /\ turn[w].pc = "related"
  /\ LET t == turn[w]
         r == find_related_sections(t.query[1], None, RelatedTopK, embedFails,
                                    searchFails, points)
     IN turn' = [turn EXCEPT ![w] =
          IF r.status = "raised"
            THEN Failed(t, "find_related_sections", r.calls)
            ELSE [t EXCEPT !.related = r.contexts,
                           !.calls = t.calls \o r.calls,
                           !.pc = "generate"]]
  /\ UNCHANGED <<sessions, queries, responses, now, started>>

\* lines 91-96: generated_response = agent_service.generate_response(...)
GenerateResponse(w, llmFails) ==
  /\ turn[w].pc = "generate"
  /\ LET t == turn[w]
     IN turn' = [turn EXCEPT ![w] =
          IF llmFails THEN Failed(t, "generate_response", <<"generate">>)
          ELSE [t EXCEPT !.response = <<generate_response(t.query[1], t.contexts)>>,
                         !.calls = t.calls \o <<"generate">>,
                         !.pc = "save_response"]]
  /\ UNCHANGED <<sessions, queries, responses, now, started>>

\* line 99: saved_response = storage_svc.save_generated_response(generated_response)
SaveResponse(w, dbFails) ==
  /\ turn[w].pc = "save_response"
  /\ LET t == turn[w]
         r == save_generated_response(t.response[1], dbFails, responses)
     IN /\ responses' = r.table
        /\ turn' = [turn EXCEPT ![w] =
             IF r.status = "raised"
               THEN Failed(t, "save_generated_response", <<"save_generated_response">>)
               ELSE [t EXCEPT !.calls = t.calls \o <<"save_generated_response">>,
                              !.pc = "update_session"]]
  /\ UNCHANGED <<sessions, queries, now, started>>

\* the test `not section_history or section_history[-1] != current_section`
AppendsSection_Tail(current_section, section_history) ==
  section_history = <<>> \/ section_history[Len(section_history)] # current_section

\* line 105: whether the section is appended to session.section_history
AppendsSection(current_section, section_history) ==
  \A i \in 1..Len(section_history) : section_history[i] # current_section

\* a mutation that resets current_section when nothing was retrieved
MutatedSession_Resets(session, retrieved_contexts) ==
  IF retrieved_contexts = <<>>
    THEN [session EXCEPT !.current_section = None]
    ELSE [session EXCEPT
            !.section_history =
               IF \A i \in 1..Len(session.section_history) :
                    session.section_history[i] # retrieved_contexts[1].section
                 THEN Append(session.section_history, retrieved_contexts[1].section)
                 ELSE session.section_history,
            !.current_section = retrieved_contexts[1].section]

\* lines 103-109: the session object after the turn's mutation
MutatedSession(session, retrieved_contexts) ==
  LET current_section == retrieved_contexts[1].section
      s1 == IF retrieved_contexts = <<>> THEN session
            ELSE [session EXCEPT
                    !.section_history =
                       IF AppendsSection(current_section, session.section_history)
                         THEN Append(session.section_history, current_section)
                         ELSE session.section_history,
                    !.current_section = current_section]
  IN s1

\* lines 116-133: what the response shows of a retrieved context
ContextShown(ctx) ==
  [id |-> ctx.id, section |-> ctx.section, similarity_score |-> ctx.similarity_score]

\* lines 113-136: the ChatResponse
ChatResponseOf(t) ==
  [response           |-> t.response[1].response_text,
   session_id         |-> t.session_id,
   query_id           |-> t.query[1].id,
   source_context     |-> [i \in 1..Len(t.contexts) |-> ContextShown(t.contexts[i])],
   suggested_sections |-> [i \in 1..Len(t.related) |-> ContextShown(t.related[i])],
   confidence_score   |-> t.response[1].confidence_score]

\* lines 101-138: the session is mutated, stamped with datetime.now() and
\* stored, and the response returned
UpdateSession(w, dbFails, tick) ==
  /\ turn[w].pc = "update_session"
  /\ tick => now < MaxClock
  /\ now' = IF tick THEN now + 1 ELSE now
  /\ LET t == turn[w]
         session == [MutatedSession(t.session[1], t.contexts)
                       EXCEPT !.updated_at = now']
         r == update_session(session, dbFails, sessions)
     IN /\ sessions' = r.table
        /\ turn' = [turn EXCEPT ![w] =
             IF r.status = "raised"
               THEN Failed(t, "update_session", <<"update_session">>)
               ELSE [IdleTurn EXCEPT
                       !.pc = "done", !.n = t.n, !.session_id = t.session_id,
                       !.query_text = t.query_text, !.query = t.query,
                       !.fellBack = t.fellBack,
                       !.session = <<session>>,
                       !.calls = t.calls \o <<"update_session">>,
                       !.result = <<ChatResponseOf(t)>>]]
  /\ UNCHANGED <<queries, responses, started>>

\* the collection the chat turns search: empty, or two ingested contents
ChatIndexes ==
  {<<>>,
   Upsert(<<>>, BuildPoints(<<"doc_a", "doc_b">>, <<0, 2>>,
                            <<[id |-> "chunk_0", section |-> "Intro"],
                              [id |-> "chunk_1", section |-> "Body"]>>, {}))}

\* the tables before any request, and after one earlier turn on session "s1"
\* (request 0, query "q0" at time 0) has run to its end against collection
\* coll, which contents were ingested into, or which was deleted, since
NoTurnYet == [sessions |-> <<>>, queries |-> <<>>, responses |-> <<>>]

EarlierTurn(coll) ==
  LET q == [id |-> QueryUuid(0), query_text |-> "q0", session_id |-> "s1",
            query_embedding |-> <<>>, created_at |-> 0]
      created == [id |-> "s1", current_section |-> None,
                  section_history |-> <<>>, updated_at |-> 0, is_active |-> TRUE]
      h == CHOOSE x \in get_session_history("s1", <<q>>, <<>>) : TRUE
      r == retrieve_context_with_conversation_history(
             q, h, RetrieveTopK, FALSE, FALSE, FALSE, FALSE, coll)
  IN [sessions  |-> ("s1" :> MutatedSession(created, r.contexts)),
      queries   |-> <<q>>,
      responses |-> <<generate_response(q, r.contexts)>>]

InitChat ==
  /\ points \in ChatIndexes
  /\ supplied = [n \in DOMAIN points |-> points[n].payload.original_content_id]
  /\ callsWith = [c \in ContentIds |->
                    IF \E n \in DOMAIN points : supplied[n] = c THEN 1 ELSE 0]
  /\ reusedId = FALSE
  /\ searchHits = <<>>
  /\ searchResult = <<>>
  /\ searchStatus = "none"
  /\ formsTried = <<>>
  /\ NoRetrievalCall
  /\ \E db \in {NoTurnYet} \cup {EarlierTurn(coll) : coll \in ChatIndexes} :
       /\ sessions = db.sessions
       /\ queries = db.queries
       /\ responses = db.responses
  /\ now = 0
  /\ started = 0
  /\ turn = [w \in Workers |-> IdleTurn]

\* one step of the chat endpoint: requests are served by the workers W, callF
\* are the ways a call to a store or provider may fail
ChatStep(W, maxTurns, callF) ==
  \/ \E w \in W, s \in SuppliedSessionIds \cup {None}, q \in QueryTexts :
       StartTurn(w, s, q, maxTurns) /\ UNCHANGED <<vecVars, retrVars>>
  \/ \E w \in W, dbFails \in callF :
       GetSession(w, dbFails) /\ UNCHANGED <<vecVars, retrVars>>
  \/ \E w \in W, dbFails \in callF :
       CreateSession(w, dbFails) /\ UNCHANGED <<vecVars, retrVars>>
  \/ \E w \in W, tick \in BOOLEAN :
       BuildQuery(w, tick) /\ UNCHANGED <<vecVars, retrVars>>
  \/ \E w \in W, dbFails \in callF :
       SaveUserQuery(w, dbFails) /\ UNCHANGED <<vecVars, retrVars>>
  \/ \E w \in W, dbFails \in callF :
       GetSessionHistory(w, dbFails) /\ UNCHANGED <<vecVars, retrVars>>
  \/ \E w \in W, fe \in callF, fs \in callF, pe \in callF, ps \in callF :
       /\ fe => ~fs                      \* no search after a failed embedding
       /\ ~(fe \/ fs) => ~pe /\ ~ps      \* the fallback runs only after a failure
       /\ pe => ~ps
       /\ RetrieveContext(w, fe, fs, pe, ps)
       /\ UNCHANGED <<vecVars, retrVars>>
  \/ \E w \in W, e \in callF, s \in callF :
       /\ e => ~s
       /\ FindRelated(w, e, s)
       /\ UNCHANGED <<vecVars, retrVars>>
  \/ \E w \in W, llmFails \in callF :
       GenerateResponse(w, llmFails) /\ UNCHANGED <<vecVars, retrVars>>
  \/ \E w \in W, dbFails \in callF :
       SaveResponse(w, dbFails) /\ UNCHANGED <<vecVars, retrVars>>
  \/ \E w \in W, dbFails \in callF, tick \in BOOLEAN :
       UpdateSession(w, dbFails, tick) /\ UNCHANGED <<vecVars, retrVars>>

\* turns served one after the other, any call of a turn may fail
NextChat == ChatStep({1}, MaxTurns, BOOLEAN)

SpecChat == InitChat /\ [][NextChat]_vars

\* one turn per worker, served at the same time
NextRace == ChatStep(Workers, Cardinality(Workers), {FALSE})

SpecRace == InitChat /\ [][NextRace]_vars

(***************************************************************************)
(* The RetrievalService methods called on their own: the collection and    *)
(* the arguments are drawn at the start, one step makes the call           *)
(***************************************************************************)
MaxIndex == 3      \* most points in the collection searched
MaxTopK  == 2      \* top_k ranges over 0..MaxTopK

\* contents ingested into the collection searched; one has no section
RetrievalItems ==
  {<<"doc_a", 0, [id |-> "chunk_0", section |-> "Intro"]>>,
   <<"doc_a", 2, [id |-> "chunk_0", section |-> "Body"]>>,
   <<"doc_b", 2, [id |-> "chunk_1", section |-> "Intro"]>>,
   <<"doc_b", 0, [id |-> "chunk_1"]>>}

\* the collection after one add_embeddings call with these items
IndexOf(items) ==
  Upsert(<<>>, BuildPoints([i \in 1..Len(items) |-> items[i][1]],
                           [i \in 1..Len(items) |-> items[i][2]],
                           [i \in 1..Len(items) |-> items[i][3]], {}))

\* UserQuery objects: without and with an attached embedding
RetrievalQueries ==
  {[query_text |-> "q0", query_embedding |-> <<>>],
   [query_text |-> "q2", query_embedding |-> <<>>],
   [query_text |-> "q0", query_embedding |-> <<1>>]}

\* conversation histories handed to the conversation-fused retrieval
RetrievalHistories ==
  {<<>>,
   <<[query |-> "q2", response |-> None, timestamp |-> 0]>>,
   <<[query |-> "q0", response |-> ResponseText, timestamp |-> 0],
     [query |-> "q2", response |-> ResponseText, timestamp |-> 0],
     [query |-> "q2", response |-> ResponseText, timestamp |-> 1],
     [query |-> "q0", response |-> None, timestamp |-> 1]>>}

RetrievalCalls ==
  {[fn |-> "retrieve_context", query |-> q, top_k |-> k,
    embedFails |-> e, searchFails |-> f] :
      q \in RetrievalQueries, k \in 0..MaxTopK, e \in BOOLEAN, f \in BOOLEAN}
  \cup
  {[fn |-> "retrieve_context_with_conversation_history", query |-> q,
    history |-> h, top_k |-> k, fusedEmbedFails |-> fe, fusedSearchFails |-> fs,
    embedFails |-> e, searchFails |-> f] :
      q \in RetrievalQueries, h \in RetrievalHistories, k \in 0..MaxTopK,
      fe \in BOOLEAN, fs \in BOOLEAN, e \in BOOLEAN, f \in BOOLEAN}
  \cup
  {[fn |-> "find_related_sections", query |-> q, current_section |-> c,
    top_k |-> k, embedFails |-> e, searchFails |-> f] :
      q \in RetrievalQueries, c \in Sections \cup {None, ""},
      k \in 0..MaxTopK, e \in BOOLEAN, f \in BOOLEAN}

InitRetrieval ==
  /\ ChatIdle
  /\ \E items \in SeqsUpTo(RetrievalItems, MaxIndex) : points = IndexOf(items)
  /\ supplied = [n \in DOMAIN points |-> points[n].payload.original_content_id]
  /\ callsWith = [c \in ContentIds |->
                    IF \E n \in DOMAIN points : supplied[n] = c THEN 1 ELSE 0]
  /\ reusedId = FALSE
  /\ searchHits = <<>>
  /\ searchResult = <<>>
  /\ searchStatus = "none"
  /\ formsTried = <<>>
  /\ rcall \in RetrievalCalls
  /\ rret = <<>>

CallRetrieveContext ==
  /\ rret = <<>>
  /\ rcall.fn = "retrieve_context"
  /\ rret' = <<retrieve_context(rcall.query, rcall.top_k, rcall.embedFails,
                                rcall.searchFails, points)>>
  /\ UNCHANGED <<rcall, vecVars, chatVars>>

CallRetrieveWithHistory ==
  /\ rret = <<>>
  /\ rcall.fn = "retrieve_context_with_conversation_history"
  /\ rret' = <<retrieve_context_with_conversation_history(
                 rcall.query, rcall.history, rcall.top_k, rcall.fusedEmbedFails,
                 rcall.fusedSearchFails, rcall.embedFails, rcall.searchFails,
                 points)>>
  /\ UNCHANGED <<rcall, vecVars, chatVars>>

CallFindRelated ==
  /\ rret = <<>>
  /\ rcall.fn = "find_related_sections"
  /\ rret' = <<find_related_sections(rcall.query, rcall.current_section,
                                     rcall.top_k, rcall.embedFails,
                                     rcall.searchFails, points)>>
  /\ UNCHANGED <<rcall, vecVars, chatVars>>

NextRetrieval ==
  \/ CallRetrieveContext
  \/ CallRetrieveWithHistory
  \/ CallFindRelated

SpecRetrieval == InitRetrieval /\ [][NextRetrieval]_vars

(***************************************************************************)
(* The StorageService writes called on their own, one after the other on   *)
(* the connection of one process: the handlers are coroutines that never   *)
(* await, so a write runs from its execute to its commit or rollback       *)
(* before another one starts                                               *)
(***************************************************************************)
\* ConversationSession objects handed to create_session and update_session
StorageSessions ==
  {[id |-> i, current_section |-> c[1], section_history |-> c[2],
    updated_at |-> 0, is_active |-> TRUE] :
     i \in {"s1", "s2"}, c \in {<<None, <<>>>>, <<"Intro", <<"Intro">>>>}}

\* UserQuery objects handed to save_user_query, without and with an embedding
StorageQueries ==
  {[id |-> QueryUuid(n), query_text |-> "q0", session_id |-> i,
    query_embedding |-> e, created_at |-> 0] :
     n \in {0, 1}, i \in {"s1", "s2"}, e \in {<<>>, <<1>>}}

\* GeneratedResponse objects handed to save_generated_response
StorageResponses ==
  {generate_response(q, <<>>) : q \in {x \in StorageQueries : x.query_embedding = <<>>}}

InitStorage ==
  /\ points = <<>>
  /\ supplied = <<>>
  /\ callsWith = [c \in ContentIds |-> 0]
  /\ reusedId = FALSE
  /\ searchHits = <<>>
  /\ searchResult = <<>>
  /\ searchStatus = "none"
  /\ formsTried = <<>>
  /\ \E db \in {NoTurnYet, EarlierTurn(<<>>)} :
       /\ sessions = db.sessions
       /\ queries = db.queries
       /\ responses = db.responses
  /\ now = 0
  /\ started = 0
  /\ turn = <<>>
  /\ NoRetrievalCall

CallCreateSession(session, dbFails) ==
  LET r == create_session(session, dbFails, sessions)
  IN /\ sessions' = r.table
     /\ rcall' = [fn |-> "create_session", arg |-> session]
     /\ rret' = <<[status |-> r.status]>>
     /\ UNCHANGED <<queries, responses, now, started, turn, vecVars>>

CallUpdateSession(session, dbFails) ==
  LET r == update_session(session, dbFails, sessions)
  IN /\ sessions' = r.table
     /\ rcall' = [fn |-> "update_session", arg |-> session]
     /\ rret' = <<[status |-> r.status]>>
     /\ UNCHANGED <<queries, responses, now, started, turn, vecVars>>

CallSaveUserQuery(query, dbFails) ==
  LET r == save_user_query(query, dbFails, queries, sessions)
  IN /\ queries' = r.table
     /\ rcall' = [fn |-> "save_user_query", arg |-> query]
     /\ rret' = <<[status |-> r.status]>>
     /\ UNCHANGED <<sessions, responses, now, started, turn, vecVars>>

\* the foreign keys of generated_responses reject a row whose session or
\* query does not exist
CallSaveGeneratedResponse(response, dbFails) ==
  LET rejected == \/ response.session_id \notin DOMAIN sessions
                  \/ \A i \in 1..Len(queries) : queries[i].id # response.query_id
      r == save_generated_response(response, dbFails \/ rejected, responses)
  IN /\ responses' = r.table
     /\ rcall' = [fn |-> "save_generated_response", arg |-> response]
     /\ rret' = <<[status |-> r.status]>>
     /\ UNCHANGED <<sessions, queries, now, started, turn, vecVars>>

NextStorage ==
  \/ \E session \in StorageSessions, dbFails \in BOOLEAN :
       CallCreateSession(session, dbFails)
  \/ \E session \in StorageSessions, dbFails \in BOOLEAN :
       CallUpdateSession(session, dbFails)
  \/ \E query \in StorageQueries, dbFails \in BOOLEAN :
       CallSaveUserQuery(query, dbFails)
  \/ \E response \in StorageResponses, dbFails \in BOOLEAN :
       CallSaveGeneratedResponse(response, dbFails)

SpecStorage == InitStorage /\ [][NextStorage]_vars

(***************************************************************************)
(* VectorDB.add_embeddings called on its own, its three lists drawn one    *)
(* by one, of equal length or not                                          *)
(***************************************************************************)
\* lists of one element at least
ListsUpTo(S, n) == SeqsUpTo(S, n) \ {<<>>}

UpsertCalls ==
  [fn          : {"add_embeddings"},
   content_ids : ListsUpTo(ContentIds, MaxBatch),
   embeddings  : ListsUpTo({0, 2}, MaxBatch),
   payloads    : ListsUpTo(CallerPayloads, MaxBatch),
   upsertFails : BOOLEAN]

InitUpsert ==
  /\ ChatIdle
  /\ points \in ChatIndexes
  /\ supplied = [n \in DOMAIN points |-> points[n].payload.original_content_id]
  /\ callsWith = [c \in ContentIds |->
                    IF \E n \in DOMAIN points : supplied[n] = c THEN 1 ELSE 0]
  /\ reusedId = FALSE
  /\ searchHits = <<>>
  /\ searchResult = <<>>
  /\ searchStatus = "none"
  /\ formsTried = <<>>
  /\ rcall \in UpsertCalls
  /\ rret = <<>>

\* the call: client.upsert raises, and add_embeddings with it, or the points
\* built are written
CallAddEmbeddings ==
  /\ rret = <<>>
  /\ IF rcall.upsertFails
       THEN /\ rret' = <<[status |-> "raised"]>>
            /\ UNCHANGED vecVars
       ELSE /\ add_embeddings(rcall.content_ids, rcall.embeddings, rcall.payloads)
            /\ rret' = <<[status |-> "ok"]>>
  /\ UNCHANGED <<rcall, chatVars>>

NextUpsert == CallAddEmbeddings

SpecUpsert == InitUpsert /\ [][NextUpsert]_vars

(***************************************************************************)
(* VectorDB.search_similar called on its own: what each of the two call    *)
(* forms would do is drawn with the arguments                              *)
(***************************************************************************)
SearchCalls ==
  [fn             : {"search_similar"},
   q              : QueryVecs,
   limit          : 0..MaxTopK,
   primaryFails   : BOOLEAN,
   alternateFails : BOOLEAN]

InitSearch ==
  /\ ChatIdle
  /\ \E items \in SeqsUpTo(RetrievalItems, MaxIndex) : points = IndexOf(items)
  /\ supplied = [n \in DOMAIN points |-> points[n].payload.original_content_id]
  /\ callsWith = [c \in ContentIds |->
                    IF \E n \in DOMAIN points : supplied[n] = c THEN 1 ELSE 0]
  /\ reusedId = FALSE
  /\ searchHits = <<>>
  /\ searchResult = <<>>
  /\ searchStatus = "none"
  /\ formsTried = <<>>
  /\ rcall \in SearchCalls
  /\ rret = <<>>

CallSearchSimilar ==
  /\ rret = <<>>
  /\ search_similar(rcall.q, rcall.limit, rcall.primaryFails, rcall.alternateFails)
  /\ rret' = <<[status |-> searchStatus']>>
  /\ UNCHANGED <<rcall, chatVars>>

NextSearch == CallSearchSimilar

SpecSearch == InitSearch /\ [][NextSearch]_vars

(***************************************************************************)
(* EmbeddingService: the methods that embed documents, called on their     *)
(* own. Text i of a call is the number i, and the provider either answers  *)
(* every request in full, or errors, or leaves the last vector out         *)
(***************************************************************************)
MaxTexts == 97             \* most contents handed to generate_content_embeddings
MaxBatchTexts == 5         \* most texts handed to generate_embeddings_batch
DefaultBatchSize == 96     \* batch_size: int = 96

ProviderModes == {"full", "error", "short"}

\* the vector the provider computes for a text
VectorOf(text) == <<"vec", text>>

\* client.embed(texts=..., input_type="search_document")
ProviderEmbed(texts, mode) ==
  CASE mode = "error" -> [status |-> "raised", embeddings |-> <<>>]
    [] mode = "short" ->
         [status |-> "ok",
          embeddings |-> [i \in 1..(IF texts = <<>> THEN 0 ELSE Len(texts) - 1) |->
                            VectorOf(texts[i])]]
    [] OTHER ->
         [status |-> "ok",
          embeddings |-> [i \in 1..Len(texts) |-> VectorOf(texts[i])]]

\* EmbeddingService.generate_embeddings: one request with all the texts
generate_embeddings(texts, mode) ==
  LET response == ProviderEmbed(texts, mode)
  IN [status |-> response.status, embeddings |-> response.embeddings,
      requests |-> <<Len(texts)>>]

\* EmbeddingService.generate_content_embeddings
generate_content_embeddings(contents, mode) ==
  LET texts == [i \in 1..Len(contents) |-> contents[i].content]
      r == generate_embeddings(texts, mode)
  IN IF r.status = "raised"
       THEN [status |-> "raised", result |-> <<>>, requests |-> r.requests]
       ELSE [status |-> "ok",
             result |-> [i \in 1..Min(Len(contents), Len(r.embeddings)) |->
                           [id |-> contents[i].id, embedding |-> r.embeddings[i]]],
             requests |-> r.requests]

\* the loop of generate_embeddings_batch from offset i (0-based) on
RECURSIVE BatchLoop(_, _, _, _, _, _)
BatchLoop(texts, batch_size, mode, i, all_embeddings, requests) ==
  IF i >= Len(texts)
    THEN [status |-> "ok", result |-> all_embeddings, requests |-> requests]
    ELSE LET batch == SubSeq(texts, i + 1, Min(i + batch_size, Len(texts)))
             r == generate_embeddings(batch, mode)
         IN IF r.status = "raised"
              THEN [status |-> "raised", result |-> <<>>,
                    requests |-> requests \o r.requests]
              ELSE BatchLoop(texts, batch_size, mode, i + batch_size,
                             all_embeddings \o r.embeddings,
                             requests \o r.requests)

\* EmbeddingService.generate_embeddings_batch
generate_embeddings_batch(texts, batch_size, mode) ==
  BatchLoop(texts, batch_size, mode, 0, <<>>, <<>>)

EmbeddingCalls ==
  [fn : {"generate_content_embeddings"}, n : 0..MaxTexts, mode : ProviderModes]
  \cup
  [fn : {"generate_embeddings_batch"}, n : 0..MaxBatchTexts,
   batch_size : {1, 2, DefaultBatchSize}, mode : ProviderModes]

InitEmbedding ==
  /\ ChatIdle
  /\ points = <<>>
  /\ supplied = <<>>
  /\ callsWith = [c \in ContentIds |-> 0]
  /\ reusedId = FALSE
  /\ searchHits = <<>>
  /\ searchResult = <<>>
  /\ searchStatus = "none"
  /\ formsTried = <<>>
  /\ rcall \in EmbeddingCalls
  /\ rret = <<>>

\* ingest_content: the chunks of a document are embedded
CallGenerateContentEmbeddings ==
  /\ rret = <<>>
  /\ rcall.fn = "generate_content_embeddings"
  /\ rret' = <<generate_content_embeddings(
                 [i \in 1..rcall.n |-> [id |-> i, content |-> i]], rcall.mode)>>
  /\ UNCHANGED <<rcall, vecVars, chatVars>>

CallGenerateEmbeddingsBatch ==
  /\ rret = <<>>
  /\ rcall.fn = "generate_embeddings_batch"
  /\ rret' = <<generate_embeddings_batch([i \in 1..rcall.n |-> i],
                                         rcall.batch_size, rcall.mode)>>
  /\ UNCHANGED <<rcall, vecVars, chatVars>>

NextEmbedding ==
  \/ CallGenerateContentEmbeddings
  \/ CallGenerateEmbeddingsBatch

SpecEmbedding == InitEmbedding /\ [][NextEmbedding]_vars

(***************************************************************************)
(* IngestionService.chunk_content, called on its own.  A text is the       *)
(* sequence of its characters; len, re.split, str.split, str.strip and     *)
(* slicing are computed character by character                             *)
(***************************************************************************)
MaxLen       == 5    \* longest content handed to chunk_content
MaxChunkSize == 3    \* chunk_size ranges over 1..MaxChunkSize
MaxOverlap   == 2    \* overlap ranges over 0..MaxOverlap

Chars == {"a", "b", ".", " "}
Terminators == {".", "!", "?"}
Texts == UNION {[1..n -> Chars] : n \in 0..MaxLen}

Max(a, b) == IF a > b THEN a ELSE b

\* positions of s that hold something else than white space
NonSpace(s) == {k \in 1..Len(s) : s[k] # " "}

Lowest(S) == CHOOSE k \in S : \A m \in S : k <= m

Highest(S) == CHOOSE k \in S : \A m \in S : k >= m

\* str.strip()
Strip(s) == IF NonSpace(s) = {} THEN <<>> ELSE SubSeq(s, Lowest(NonSpace(s)), Highest(NonSpace(s)))

\* s[-n:] for n > 0
LastChars(s, n) == SubSeq(s, Max(1, Len(s) - n + 1), Len(s))

RECURSIVE SplitLoop(_, _, _, _)
\* re.split(r'(?<=[.!?]) +', s): a separator is a whole run of spaces that
\* follows a terminator; cur is the piece being read, out the pieces cut
SplitLoop(s, i, cur, out) ==
  IF i > Len(s) THEN Append(out, cur)
  ELSE IF s[i] = " " /\ i > 1 /\ s[i - 1] \in Terminators
       THEN LET rest == {k \in i..Len(s) : s[k] # " "}
                j == IF rest = {} THEN Len(s) + 1 ELSE Lowest(rest)
            IN SplitLoop(s, j, <<>>, Append(out, cur))
       ELSE SplitLoop(s, i + 1, Append(cur, s[i]), out)

SplitSentences(content) == SplitLoop(content, 1, <<>>, <<>>)

RECURSIVE WordLoop(_, _, _, _)
\* str.split(): the maximal runs of characters that are not white space
WordLoop(s, i, cur, out) ==
  IF i > Len(s) THEN (IF cur = <<>> THEN out ELSE Append(out, cur))
  ELSE IF s[i] = " "
       THEN WordLoop(s, i + 1, <<>>, IF cur = <<>> THEN out ELSE Append(out, cur))
       ELSE WordLoop(s, i + 1, Append(cur, s[i]), out)

Split(s) == WordLoop(s, 1, <<>>, <<>>)

RECURSIVE PackWords_Unsplit(_, _, _, _, _)
\* the word loop without the test against chunk_size
PackWords_Unsplit(words, k, chunk_size, temp_chunk, chunks) ==
  IF k > Len(words)
  THEN (IF temp_chunk # <<>> THEN Append(chunks, Strip(temp_chunk)) ELSE chunks)
  ELSE PackWords_Unsplit(words, k + 1, chunk_size,
                         IF temp_chunk # <<>> THEN temp_chunk \o <<" ">> \o words[k]
                                              ELSE words[k],
                         chunks)

RECURSIVE PackWords(_, _, _, _, _)
\* the loop over the words of a sentence longer than chunk_size:
\* temp_chunk = word is under "if temp_chunk"
PackWords(words, k, chunk_size, temp_chunk, chunks) ==
  IF k > Len(words)
  THEN (IF temp_chunk # <<>> THEN Append(chunks, Strip(temp_chunk)) ELSE chunks)
  ELSE LET word == words[k]
       IN IF Len(temp_chunk) + 1 + Len(word) <= chunk_size
          THEN PackWords(words, k + 1, chunk_size,
                         IF temp_chunk # <<>> THEN temp_chunk \o <<" ">> \o word ELSE word,
                         chunks)
          ELSE IF temp_chunk # <<>>
               THEN PackWords(words, k + 1, chunk_size, word, Append(chunks, Strip(temp_chunk)))
               ELSE PackWords(words, k + 1, chunk_size, temp_chunk, chunks)

RECURSIVE SentenceLoop(_, _, _, _, _)
\* the loop over the sentences; current_chunk is left as it is after a
\* sentence longer than chunk_size
SentenceLoop(sentences, k, chunk_size, current_chunk, chunks) ==
  IF k > Len(sentences)
  THEN (IF current_chunk # <<>> THEN Append(chunks, Strip(current_chunk)) ELSE chunks)
  ELSE LET sentence == sentences[k]
           closed == IF current_chunk # <<>> THEN Append(chunks, Strip(current_chunk)) ELSE chunks
       IN IF Len(current_chunk) + 1 + Len(sentence) <= chunk_size
          THEN SentenceLoop(sentences, k + 1, chunk_size,
                            IF current_chunk # <<>> THEN current_chunk \o <<" ">> \o sentence
                                                    ELSE sentence,
                            chunks)
          ELSE IF Len(sentence) > chunk_size
               THEN SentenceLoop(sentences, k + 1, chunk_size, current_chunk,
                                 PackWords(Split(sentence), 1, chunk_size, <<>>, closed))
               ELSE SentenceLoop(sentences, k + 1, chunk_size, sentence, closed)

\* "Apply overlap between chunks": the tail is taken from the chunk before
\* as it was before any overlap was applied
ApplyOverlap(chunks, overlap) ==
  IF overlap > 0 /\ Len(chunks) > 1
  THEN [i \in 1..Len(chunks) |->
          IF i > 1 THEN Strip(LastChars(chunks[i - 1], overlap) \o <<" ">> \o chunks[i])
                   ELSE chunks[i]]
  ELSE chunks

chunk_content(content, chunk_size, overlap) == ApplyOverlap(SentenceLoop(SplitSentences(content), 1, chunk_size, <<>>, <<>>), overlap)

ChunkCalls == [content : Texts, chunk_size : 1..MaxChunkSize, overlap : 0..MaxOverlap]

InitChunk ==
  /\ ChatIdle
  /\ points = <<>>
  /\ supplied = <<>>
  /\ callsWith = [c \in ContentIds |-> 0]
  /\ reusedId = FALSE
  /\ searchHits = <<>>
  /\ searchResult = <<>>
  /\ searchStatus = "none"
  /\ formsTried = <<>>
  /\ rcall \in ChunkCalls
  /\ rret = <<>>

CallChunkContent ==
  /\ rret = <<>>
  /\ rret' = <<chunk_content(rcall.content, rcall.chunk_size, rcall.overlap)>>
  /\ UNCHANGED <<rcall, vecVars, chatVars>>

NextChunk == CallChunkContent

SpecChunk == InitChunk /\ [][NextChunk]_vars

(***************************************************************************)
(* Process start: core/config.py is run when main.py imports it, then the  *)
(* startup event, then requests.  rcall holds the environment the process  *)
(* is started in, rret what has happened to the process so far             *)
(***************************************************************************)
MaxServed == 2     \* requests served after a start

Unset == "<unset>"
EnvVars == {"COHERE_API_KEY", "QDRANT_API_KEY", "GEMINI_API_KEY", "QDRANT_URL", "DATABASE_URL", "QDRANT_COLLECTION_NAME"}
EnvValues == {Unset, "", "set"}
Environments == [EnvVars -> EnvValues]

\* os.getenv(name, default)
Getenv(env, name, default) == IF env[name] = Unset THEN default ELSE env[name]

\* the attributes of class Config
Config(env) ==
  [COHERE_API_KEY |-> Getenv(env, "COHERE_API_KEY", ""),
   QDRANT_API_KEY |-> Getenv(env, "QDRANT_API_KEY", ""),
   GEMINI_API_KEY |-> Getenv(env, "GEMINI_API_KEY", ""),
   QDRANT_URL |-> Getenv(env, "QDRANT_URL", ""),
   DATABASE_URL |-> Getenv(env, "DATABASE_URL", ""),
   QDRANT_COLLECTION_NAME |-> Getenv(env, "QDRANT_COLLECTION_NAME", "book_content")]

required_vars == <<"COHERE_API_KEY", "QDRANT_API_KEY", "QDRANT_URL", "DATABASE_URL", "GEMINI_API_KEY">>

\* Config.validate without its test
validate_Nothing(config) == <<>>

\* Config.validate: the required variables whose value is falsy
validate(config) == SelectSeq(required_vars, LAMBDA var : config[var] = "")

StartCalls == [fn : {"start"}, env : Environments]

InitStart ==
  /\ ChatIdle
  /\ points = <<>>
  /\ supplied = <<>>
  /\ callsWith = [c \in ContentIds |-> 0]
  /\ reusedId = FALSE
  /\ searchHits = <<>>
  /\ searchResult = <<>>
  /\ searchStatus = "none"
  /\ formsTried = <<>>
  /\ rcall \in StartCalls
  /\ rret = <<>>

\* import of core.config: "Validate configuration at startup"
ImportConfig ==
  /\ rret = <<>>
  /\ LET validation_errors == validate(Config(rcall.env))
     IN rret' = IF validation_errors # <<>>
                  THEN <<[event |-> "ValueError", errors |-> validation_errors]>>
                  ELSE <<[event |-> "configured", errors |-> <<>>]>>
  /\ UNCHANGED <<rcall, vecVars, chatVars>>

\* startup_event: validate again, then vector_db.create_collection()
startup_event(collectionFails) ==
  /\ Len(rret) = 1
  /\ rret[1].event = "configured"
  /\ LET errors == validate(Config(rcall.env))
     IN rret' = Append(rret,
          IF errors # <<>> THEN [event |-> "ValueError", errors |-> errors]
          ELSE IF collectionFails THEN [event |-> "startup_failed", errors |-> <<>>]
          ELSE [event |-> "started", errors |-> <<>>])
  /\ UNCHANGED <<rcall, vecVars, chatVars>>

\* a request is routed to its handler once the startup event has completed
ServeRequest ==
  /\ Len(rret) >= 2
  /\ Len(rret) < 2 + MaxServed
  /\ rret[2].event = "started"
  /\ rret' = Append(rret, [event |-> "request", errors |-> <<>>])
  /\ UNCHANGED <<rcall, vecVars, chatVars>>

NextStart ==
  \/ ImportConfig
  \/ \E collectionFails \in BOOLEAN : startup_event(collectionFails)
  \/ ServeRequest

SpecStart == InitStart /\ [][NextStart]_vars

(***************************************************************************)
(* The ingestion endpoints: POST /ingest/ and POST /ingest/bulk, served    *)
(* one after the other.  rcall is the request served last, rret has one    *)
(* record per request served: its answer and the chunk ids it produced     *)
(***************************************************************************)
MaxRuns  == 2      \* ingestion requests served
MaxFiles == 2      \* most files below a docs_path

DefaultChunkSize == 1000      \* chunk_size: int = 1000
DefaultOverlap == 100         \* overlap: int = 100

IngestTexts == {<<>>, <<"a", ".">>, <<"a", ".", " ", "b", ".">>}
\* a path is the sequence of the pieces it is put together from
SourcePaths == {<<"/docs/", "", "intro", ".md">>}

\* f"content_{uuid4().hex}" of the n-th request
ContentUuid(n) == <<"content_", StrOf(n)>>

\* f"{content_id}_chunk_{idx}" and f"{item['source_path']}_chunk_{chunk_idx}"
ChunkId(base, idx) == base \o <<"_chunk_", StrOf(idx)>>

\* the BookContent objects of the chunks of one content; idx is 0-based
ChunkContents(base, chunks, source_path, section) ==
  [i \in 1..Len(chunks) |->
     [id |-> ChunkId(base, i - 1), content |-> chunks[i],
      source_path |-> source_path, section |-> section]]

\* the payload built for an embedded item
IngestPayload(item) ==
  [id |-> item.id, source_path |-> item.source_path, section |-> item.section]

\* files below a docs_path: directory relative to it, name, extension, text
DocFiles == [dir : {"", "guide"}, name : {"intro"}, ext : {".md", ".txt"}, content : IngestTexts \ {<<"a", ".", " ", "b", ".">>}]

\* a docs_path: whether it exists and the files os.walk finds below it
DocsPaths ==
  {[exists |-> FALSE, files |-> <<>>]} \cup
  {[exists |-> TRUE, files |-> fs] : fs \in
     {gs \in SeqsUpTo(DocFiles, MaxFiles) :
        \A i, j \in 1..Len(gs) :
          i # j => <<gs[i].dir, gs[i].name, gs[i].ext>> # <<gs[j].dir, gs[j].name, gs[j].ext>>}}

supported_extensions == {".md", ".mdx"}

\* IngestionService._extract_section_from_path
ExtractSectionFromPath(dir) == IF dir # "" THEN dir ELSE "Introduction"

\* IngestionService.read_docusaurus_content
read_docusaurus_content(docs_path) ==
  IF ~docs_path.exists THEN <<>>
  ELSE LET files == SelectSeq(docs_path.files, LAMBDA f : f.ext \in supported_extensions)
       IN [i \in 1..Len(files) |->
             [content |-> files[i].content,
              source_path |-> <<"/docs/", files[i].dir, files[i].name, files[i].ext>>,
              section |-> ExtractSectionFromPath(files[i].dir)]]

RECURSIVE prepare_content_for_embedding(_)
\* IngestionService.prepare_content_for_embedding
prepare_content_for_embedding(raw_content) ==
  IF raw_content = <<>> THEN <<>>
  ELSE LET item == Head(raw_content)
           content_chunks == chunk_content(item.content, DefaultChunkSize, DefaultOverlap)
       IN ChunkContents(item.source_path, content_chunks, item.source_path, item.section)
            \o prepare_content_for_embedding(Tail(raw_content))

\* IngestionService.process_docusaurus_docs
process_docusaurus_docs(docs_path) ==
  LET raw_content == read_docusaurus_content(docs_path)
  IN IF raw_content = <<>> THEN <<>> ELSE prepare_content_for_embedding(raw_content)

\* lines 81-99 and 135-153: embed the chunks, then write them to the vector
\* store; the answer is HTTP 500 when either raises
EmbedAndStore(kind, chunk_contents, content_id, mode, upsertFails) ==
  LET embedded == generate_content_embeddings(chunk_contents, mode)
      n == Len(embedded.result)
      ids == [i \in 1..Len(chunk_contents) |-> chunk_contents[i].id]
  IN IF embedded.status = "raised" \/ upsertFails
       THEN /\ rret' = Append(rret, [kind |-> kind, status_code |-> 500,
                                     content_id |-> <<>>, chunks_processed |-> 0,
                                     chunk_ids |-> ids, upserted |-> <<>>])
            /\ UNCHANGED vecVars
       ELSE /\ add_embeddings([i \in 1..n |-> embedded.result[i].id],
                              [i \in 1..n |-> embedded.result[i].embedding],
                              [i \in 1..n |-> IngestPayload(chunk_contents[i])])
            /\ rret' = Append(rret, [kind |-> kind, status_code |-> 200,
                                     content_id |-> content_id,
                                     chunks_processed |-> Len(chunk_contents),
                                     chunk_ids |-> ids,
                                     upserted |-> [i \in 1..n |-> embedded.result[i].id]])

\* POST /ingest/
ingest_content(request, mode, upsertFails) ==
  /\ Len(rret) < MaxRuns
  /\ rcall' = request
  /\ LET content_id == ContentUuid(Len(rret) + 1)
         chunks == chunk_content(request.content, DefaultChunkSize, DefaultOverlap)
     IN EmbedAndStore("single",
                      ChunkContents(content_id, chunks, request.source_path, request.section),
                      content_id, mode, upsertFails)
  /\ UNCHANGED chatVars

\* lines 128-132 and 163-167: the HTTPException raised for no content is an
\* Exception, and the except clause of the handler answers it with HTTP 500
BulkNoContent == [kind |-> "bulk", status_code |-> 500, content_id |-> <<>>, chunks_processed |-> 0, chunk_ids |-> <<>>, upserted |-> <<>>]

\* POST /ingest/bulk
bulk_ingest_content(request, mode, upsertFails) ==
  /\ Len(rret) < MaxRuns
  /\ rcall' = request
  /\ LET book_contents == process_docusaurus_docs(request.docs_path)
     IN IF book_contents = <<>>
          THEN /\ rret' = Append(rret, BulkNoContent)
               /\ UNCHANGED vecVars
          ELSE EmbedAndStore("bulk", book_contents, <<"bulk_ingest">>, mode, upsertFails)
  /\ UNCHANGED chatVars

IngestRequests == [content : IngestTexts, source_path : SourcePaths, section : {"General"}]
BulkIngestRequests == [docs_path : DocsPaths]

InitIngest ==
  /\ ChatIdle
  /\ NoRetrievalCall
  /\ points = <<>>
  /\ supplied = <<>>
  /\ callsWith = [c \in ContentIds |-> 0]
  /\ reusedId = FALSE
  /\ searchHits = <<>>
  /\ searchResult = <<>>
  /\ searchStatus = "none"
  /\ formsTried = <<>>

NextIngest ==
  \/ \E request \in IngestRequests, mode \in ProviderModes, upsertFails \in BOOLEAN :
       ingest_content(request, mode, upsertFails)
  \/ \E request \in BulkIngestRequests, mode \in ProviderModes, upsertFails \in BOOLEAN :
       bulk_ingest_content(request, mode, upsertFails)

SpecIngest == InitIngest /\ [][NextIngest]_vars

(***************************************************************************)
(* Claims about the vector index adapter, checked under SpecVector         *)
(***************************************************************************)
\* points of the collection that carry content id c
PointsOf(c) ==
  {n \in DOMAIN points : PayloadGet(points[n].payload, "original_content_id", None) = c}

\* C1: every hit a successful search returns carries as its id the content id
\* the caller supplied for that point through add_embeddings, and never the
\* store's native point id.
C1_IdentityPreserved ==
  searchStatus = "ok" =>
    \A i \in 1..Len(searchResult) :
      /\ searchResult[i].id = supplied[searchHits[i]]
      /\ searchResult[i].id # StrOf(searchHits[i])

\* C1 witness: after an add_embeddings call that overwrote earlier points, a
\* search returns two hits ranked against the store order.
C1_Witness ==
  /\ searchStatus = "ok"
  /\ reusedId
  /\ Len(searchResult) = 2
  /\ searchHits[1] > searchHits[2]
  /\ searchResult[1].id = "doc_a"
  /\ searchResult[2].id = "doc_b"

\* C2 (as claimed): an add_embeddings call never assigns a native id an earlier
\* call used, so a content id carried by two calls has two distinct points.
C2_FreshNativeIds ==
  /\ ~reusedId
  /\ \A c \in ContentIds : callsWith[c] = 2 => Cardinality(PointsOf(c)) >= 2


(***************************************************************************)
(* Claims about the chat turn                                              *)
(***************************************************************************)
\* positions in a turn's log of the calls named
PositionsOf(calls, names) == {i \in 1..Len(calls) : calls[i] \in names}

\* rows of user_queries, resp. generated_responses, written for request n
QueryRowsOf(n) == {i \in 1..Len(queries) : queries[i].id = QueryUuid(n)}
ResponseRowsOf(n) == {i \in 1..Len(responses) : responses[i].query_id = QueryUuid(n)}

StepsAfterSave ==
  {"get_session_history", "retrieve_context", "find_related_sections",
   "generate_response", "save_generated_response", "update_session"}

\* C3: in every chat turn the user query row is committed before any
\* embedding, vector-search or language-model call of the turn, and a turn
\* that fails at a later step leaves the row persisted
C3_QueryCommittedFirst ==
  \A w \in Workers :
    LET t == turn[w]
        ext == PositionsOf(t.calls, {"embed", "search", "generate"})
    IN /\ ext # {} =>
            /\ \E j \in PositionsOf(t.calls, {"save_user_query"}) :
                 \A i \in ext : j < i
            /\ \E i \in QueryRowsOf(t.n) : queries[i] = t.query[1]
       /\ t.pc = "failed" /\ t.failedAt \in StepsAfterSave =>
            \E i \in QueryRowsOf(t.n) : queries[i] = t.query[1]

\* a turn failed at generation, its query row still in the table
C3_Witness ==
  /\ turn[1].pc = "failed"
  /\ turn[1].failedAt = "generate_response"
  /\ \E i \in QueryRowsOf(turn[1].n) : queries[i].query_text = turn[1].query_text

IsPrefix(a, b) == Len(a) <= Len(b) /\ SubSeq(b, 1, Len(a)) = a

\* the calls of a turn that runs to its end, in order
FullRuns ==
  {resolve \o <<"save_user_query", "get_session_history">> \o retrieval
     \o <<"embed", "search", "generate", "save_generated_response",
          "update_session">> :
     resolve \in {<<"get_session">>, <<"get_session", "create_session">>},
     retrieval \in {<<"embed", "search">>, <<"embed", "embed", "search">>,
                    <<"embed", "search", "embed", "search">>}}

\* the calls a step may end with when it fails
FailingCalls(step) ==
  CASE step = "retrieve_context" -> {"embed", "search"}
    [] step = "find_related_sections" -> {"embed", "search"}
    [] step = "generate_response" -> {"generate"}
    [] OTHER -> {step}

\* C4: the steps of a turn run in the order resolve session, save query,
\* fetch history, fused retrieval, related sections, generate, save response,
\* update session; a turn that is done has made each call once, and a turn
\* that failed stopped at the failing call with no later side effect
C4_StepOrder ==
  LET t == turn[1]
      sid == t.session_id
  IN /\ t.pc # "idle" => \E f \in FullRuns : IsPrefix(t.calls, f)
     /\ t.pc = "done" =>
          /\ t.calls \in FullRuns
          /\ Cardinality(QueryRowsOf(t.n)) = 1
          /\ Cardinality(ResponseRowsOf(t.n)) = 1
          /\ sessions[sid] = t.session[1]
     /\ t.pc = "failed" =>
          /\ t.calls \notin FullRuns \/ t.failedAt = "update_session"
          /\ t.calls[Len(t.calls)] \in FailingCalls(t.failedAt)
          /\ t.failedAt \in {"get_session", "create_session", "save_user_query"}
               => QueryRowsOf(t.n) = {}
          /\ t.failedAt # "update_session" => ResponseRowsOf(t.n) = {}
          /\ t.failedAt \in {"get_session", "create_session"}
               => t.session = <<>>
          /\ t.failedAt = "create_session" => sid \notin DOMAIN sessions
          /\ t.session # <<>> => sessions[sid] = t.session[1]

\* a turn whose fused search failed, fell back, and then failed at generation
C4_Witness ==
  /\ turn[1].pc = "failed"
  /\ turn[1].failedAt = "generate_response"
  /\ turn[1].calls = <<"get_session", "save_user_query", "get_session_history",
                       "embed", "search", "embed", "search", "embed", "search",
                       "generate">>
  /\ ResponseRowsOf(turn[1].n) = {}

\* the session-update step of worker w completes, having retrieved something
UpdatesSession(w) ==
  /\ turn[w].pc = "update_session"
  /\ turn'[w].pc = "done"
  /\ turn[w].contexts # <<>>

\* C5 (as claimed): the top section is appended to section_history iff it
\* differs from the last element of section_history, or the history is empty
C5_AdjacencyDedup ==
  [][\A w \in Workers : UpdatesSession(w) =>
       LET h == turn[w].session[1].section_history
           sec == turn[w].contexts[1].section
       IN sessions'[turn[w].session_id].section_history =
            IF h = <<>> \/ h[Len(h)] # sec THEN Append(h, sec) ELSE h]_vars

\* C5 (amended): the top section is appended to section_history iff it occurs
\* nowhere in section_history
C5_MembershipDedup ==
  [][\A w \in Workers : UpdatesSession(w) =>
       LET h == turn[w].session[1].section_history
           sec == turn[w].contexts[1].section
       IN sessions'[turn[w].session_id].section_history =
            IF sec \in {h[i] : i \in 1..Len(h)} THEN h ELSE Append(h, sec)]_vars

\* a turn is done whose top section was in the history, but not at its end
C5_Witness ==
  /\ turn[1].pc = "done"
  /\ turn[1].result[1].source_context # <<>>
  /\ turn[1].result[1].source_context[1].section = "Intro"
  /\ sessions[turn[1].session_id].section_history = <<"Intro", "Body">>
  /\ sessions[turn[1].session_id].current_section = "Intro"

\* C6: update_session overwrites the row with the updating turn's own copy of
\* the session (the row as that turn read it, plus its own section), whatever
\* other turns have stored in between, so that an update can be lost
C6_LastWriterWins ==
  [][\A sid \in DOMAIN sessions :
       sid \in DOMAIN sessions' /\ sessions'[sid] # sessions[sid] =>
         \E w \in Workers :
           /\ turn[w].pc = "update_session"
           /\ turn'[w].pc = "done"
           /\ turn[w].session_id = sid
           /\ sessions'[sid] = [MutatedSession(turn[w].session[1], turn[w].contexts)
                                  EXCEPT !.updated_at = now']]_vars

\* both turns on one session are done, and the section one of them appended
\* is not in the persisted row
C6_Witness ==
  \E w1, w2 \in Workers :
    /\ w1 # w2
    /\ turn[w1].pc = "done" /\ turn[w2].pc = "done"
    /\ turn[w1].session_id = turn[w2].session_id
    /\ turn[w1].result[1].source_context # <<>>
    /\ LET sec == turn[w1].result[1].source_context[1].section
           row == sessions[turn[w1].session_id]
           h == turn[w1].session[1].section_history
       IN /\ h # <<>> /\ h[Len(h)] = sec
          /\ \A i \in 1..Len(row.section_history) : row.section_history[i] # sec
          /\ row.current_section # sec


OneToOne(n, rows) ==
  {f \in [1..n -> rows] : \A i, j \in 1..n : i # j => f[i] # f[j]}

\* the response text stored for a query, None when there is none
ResponseTextOf(query_id) ==
  IF \E i \in 1..Len(responses) : responses[i].query_id = query_id
    THEN responses[CHOOSE i \in 1..Len(responses) :
                     responses[i].query_id = query_id].response_text
    ELSE None

\* h lists the query rows of the session once each, and no other, ordered by
\* created_at, each with the stored response or None
IsHistoryOf(h, session_id) ==
  LET rows == {i \in 1..Len(queries) : queries[i].session_id = session_id}
  IN /\ Len(h) = Cardinality(rows)
     /\ \E f \in OneToOne(Len(h), rows) :
          \A k \in 1..Len(h) :
            /\ h[k].query = queries[f[k]].query_text
            /\ h[k].timestamp = queries[f[k]].created_at
            /\ h[k].response = ResponseTextOf(queries[f[k]].id)
     /\ \A k \in 1..Len(h) - 1 : h[k].timestamp <= h[k + 1].timestamp

\* C10: get_session_history returns one entry for every query row of the
\* session and none of another session, in non-decreasing order of
\* created_at; a query without a response appears with a null response
C10_SessionHistory ==
  [][\A w \in Workers :
       turn[w].pc = "get_history" /\ turn'[w].pc = "retrieve" =>
         IsHistoryOf(turn'[w].history, turn[w].session_id)]_vars

\* a history of three entries fetched while the table holds the session's rows
\* out of created_at order, the last entry without a response
C10_Witness ==
  \E w \in Workers :
    /\ turn[w].pc = "retrieve"
    /\ Len(turn[w].history) = 3
    /\ turn[w].history[3].response = None
    /\ Len(queries) = 3
    /\ queries[2].created_at > queries[3].created_at

(***************************************************************************)
(* Claims about the retrieval methods                                      *)
(***************************************************************************)
\* C7: when embedding the conversation-fused query raises,
\* retrieve_context_with_conversation_history(query, history, top_k) returns
\* what retrieve_context(query, top_k) returns against the same collection
C7_FallbackEqualsPlain ==
  (/\ rret # <<>>
   /\ rcall.fn = "retrieve_context_with_conversation_history"
   /\ rcall.fusedEmbedFails) =>
    LET plain == retrieve_context(rcall.query, rcall.top_k, rcall.embedFails,
                                  rcall.searchFails, points)
    IN /\ rret[1].status = plain.status
       /\ rret[1].contexts = plain.contexts

\* the fused embedding raised over a history and a collection of three points,
\* and the one context asked for came back
C7_Witness ==
  /\ rret # <<>>
  /\ rcall.fn = "retrieve_context_with_conversation_history"
  /\ rcall.fusedEmbedFails
  /\ rcall.history # <<>>
  /\ rcall.top_k = 1
  /\ Cardinality(DOMAIN points) = 3
  /\ rret[1].status = "ok"
  /\ Len(rret[1].contexts) = 1

\* C9 (as claimed): for every current_section S supplied, no element that
\* find_related_sections returns has section S
C9_ExcludesSupplied ==
  (/\ rret # <<>>
   /\ rcall.fn = "find_related_sections"
   /\ rcall.current_section # None) =>
    \A i \in 1..Len(rret[1].contexts) :
      rret[1].contexts[i].section # rcall.current_section

\* C9 (amended): for every non-empty current_section S supplied, no element
\* that find_related_sections returns has section S
C9_ExcludesNonEmpty ==
  (/\ rret # <<>>
   /\ rcall.fn = "find_related_sections"
   /\ rcall.current_section \notin {None, ""}) =>
    \A i \in 1..Len(rret[1].contexts) :
      rret[1].contexts[i].section # rcall.current_section

\* the best hit is of section "Intro", the section excluded, and another
\* section's content is returned
C9_Witness ==
  /\ rret # <<>>
  /\ rcall.fn = "find_related_sections"
  /\ rcall.current_section = "Intro"
  /\ \E n \in DOMAIN points :
       /\ PayloadGet(points[n].payload, "section", "") = "Intro"
       /\ points[n].vector = generate_query_embedding(<<rcall.query.query_text>>)
       /\ rcall.query.query_embedding = <<>>
  /\ rret[1].status = "ok"
  /\ rret[1].contexts # <<>>


(***************************************************************************)
(* Claims about the conversation store                                     *)
(***************************************************************************)
\* the tables after the one row of the call has been written, and nothing else
RowWritten(fn, arg) ==
  CASE fn = "create_session" ->
         /\ arg.id \notin DOMAIN sessions
         /\ DOMAIN sessions' = DOMAIN sessions \cup {arg.id}
         /\ sessions'[arg.id] = arg
         /\ \A i \in DOMAIN sessions : sessions'[i] = sessions[i]
         /\ UNCHANGED <<queries, responses>>
    [] fn = "update_session" ->
         /\ arg.id \in DOMAIN sessions
         /\ sessions' = [sessions EXCEPT ![arg.id] = arg]
         /\ UNCHANGED <<queries, responses>>
    [] fn = "save_user_query" ->
         /\ queries' = Append(queries, arg)
         /\ UNCHANGED <<sessions, responses>>
    [] fn = "save_generated_response" ->
         /\ responses' = Append(responses, arg)
         /\ UNCHANGED <<sessions, queries>>

\* C11: every write of the conversation store is one single-row transaction:
\* when the call returns exactly its row is committed, and when it raises no
\* row is persisted and no other row is committed or discarded
C11_SingleRowTransactions ==
  [][rret' # <<>> =>
       /\ rret'[1].status = "ok" => RowWritten(rcall'.fn, rcall'.arg)
       /\ rret'[1].status = "raised" => UNCHANGED <<sessions, queries, responses>>]_vars


\* the steps of chat, the names an error's cause is given by
ChatSteps ==
  {"get_session", "create_session", "save_user_query"} \cup StepsAfterSave

\* C12: a chat turn that has ended has exactly one of two outcomes: the
\* complete result (response, session id, query id, source context, suggested
\* sections, confidence score) or one error carrying a cause; an error
\* carries no response body, whichever step failed
C12_OneOutcome ==
  LET t == turn[1]
  IN /\ t.pc = "done" =>
          /\ t.failedAt = None
          /\ Len(t.result) = 1
          /\ DOMAIN t.result[1] = {"response", "session_id", "query_id",
                                   "source_context", "suggested_sections",
                                   "confidence_score"}
          /\ t.result[1].session_id = t.session_id
          /\ t.result[1].query_id = QueryUuid(t.n)
          /\ t.result[1].response = ResponseText
          /\ t.result[1].confidence_score = ConfidenceScore
     /\ t.pc = "failed" => t.failedAt \in ChatSteps /\ t.result = <<>>
     /\ t.pc \notin {"done", "failed"} => t.failedAt = None /\ t.result = <<>>

\* the turn failed at its last step, with its response row stored, and
\* answers with the error alone
C12_Witness ==
  /\ turn[1].pc = "failed"
  /\ turn[1].failedAt = "update_session"
  /\ turn[1].result = <<>>
  /\ ResponseRowsOf(turn[1].n) # {}


\* C13: a turn that is done has made one update_session write; with no
\* retrieved context the write leaves the row as it was read when the session
\* was resolved but for updated_at, and with retrieved contexts it sets
\* current_section to the section of the first of them
C13_OneSessionUpdate ==
  [][\A w \in Workers :
       turn[w].pc = "update_session" /\ turn'[w].pc = "done" =>
         LET t == turn[w]
             read == t.session[1]
             row == sessions'[t.session_id]
         IN /\ Cardinality(PositionsOf(turn'[w].calls, {"update_session"})) = 1
            /\ DOMAIN sessions' = DOMAIN sessions
            /\ \A i \in DOMAIN sessions \ {t.session_id} : sessions'[i] = sessions[i]
            /\ row.updated_at = now'
            /\ t.contexts = <<>> => row = [read EXCEPT !.updated_at = now']
            /\ t.contexts # <<>> => row.current_section = t.contexts[1].section]_vars

\* a turn on a session whose current section is "Intro" retrieved nothing and
\* is done, the row stamped anew
C13_Witness ==
  /\ turn[1].pc = "done"
  /\ turn[1].result[1].source_context = <<>>
  /\ sessions[turn[1].session_id].current_section = "Intro"
  /\ sessions[turn[1].session_id].section_history = <<"Intro">>
  /\ sessions[turn[1].session_id].updated_at = 1


\* C14: for every interleaving of turns, resolving the session never fails
\* because the session already exists, and the turn answers with the session
\* id it was given
C14_SessionResolution ==
  \A w \in Workers :
    /\ ~(/\ turn[w].pc = "failed"
         /\ turn[w].failedAt = "create_session"
         /\ turn[w].session_id \in DOMAIN sessions)
    /\ turn[w].pc = "done" => turn[w].result[1].session_id = turn[w].session_id


\* C15: every entry of the suggested_sections a turn returns has a section
\* other than the current_section the turn's session had when the turn
\* resolved it
C15_SuggestionsAreRelated ==
  [][\A w \in Workers :
       turn[w].pc = "update_session" /\ turn'[w].pc = "done" =>
         \A i \in 1..Len(turn'[w].result[1].suggested_sections) :
           turn'[w].result[1].suggested_sections[i].section
             # turn[w].session[1].current_section]_vars


(***************************************************************************)
(* Claims about add_embeddings and search_similar called on their own      *)
(***************************************************************************)
\* C16: add_embeddings called with content_ids, vectors and payloads of
\* unequal lengths fails with an error and writes no point
C16_UnequalLengthsRejected ==
  [][(/\ rret = <<>>
      /\ rret' # <<>>
      /\ ~(/\ Len(rcall.content_ids) = Len(rcall.embeddings)
           /\ Len(rcall.embeddings) = Len(rcall.payloads))) =>
       /\ rret'[1].status = "raised"
       /\ points' = points]_vars


\* C17: search_similar tries the primary call form first and, if and only if
\* it fails, the alternate form once; it returns the result of the first form
\* that succeeds and raises only when both have failed
C17_SearchForms ==
  rret # <<>> =>
    /\ formsTried = IF rcall.primaryFails THEN <<"query_points", "search">>
                    ELSE <<"query_points">>
    /\ (rret[1].status = "raised") = (rcall.primaryFails /\ rcall.alternateFails)
    /\ rret[1].status = "ok" =>
         /\ searchHits = StoreHits(rcall.q, rcall.limit, points)
         /\ Len(searchResult) = Len(searchHits)
         /\ \A i \in 1..Len(searchResult) :
              searchResult[i].payload = points[searchHits[i]].payload

\* the primary form failed and the alternate form found two points
C17_Witness ==
  /\ rret # <<>>
  /\ rcall.primaryFails
  /\ formsTried = <<"query_points", "search">>
  /\ rret[1].status = "ok"
  /\ Len(searchResult) = 2


(***************************************************************************)
(* Claims about the embedding service                                      *)
(***************************************************************************)
\* C18: the embedding service fails whenever the provider call errors or
\* returns a number of vectors other than the number of texts; a result it
\* returns has a vector for every input text
C18_MismatchRaises ==
  rret # <<>> =>
    /\ (rcall.mode = "error" /\ rcall.n > 0) => rret[1].status = "raised"
    /\ (rcall.mode = "short" /\ rcall.n > 0) => rret[1].status = "raised"
    /\ rret[1].status = "ok" => Len(rret[1].result) = rcall.n

\* C19: every request the embedding service sends to the provider, those of
\* the ingestion of document chunks included, carries at most batch_size
\* (96 by default) texts, and the vectors returned are those of the input
\* texts, in their order
C19_RequestsBatched ==
  rret # <<>> =>
    LET batch_size == IF rcall.fn = "generate_embeddings_batch"
                        THEN rcall.batch_size ELSE DefaultBatchSize
        vectors == IF rcall.fn = "generate_embeddings_batch" THEN rret[1].result
                   ELSE [i \in 1..Len(rret[1].result) |-> rret[1].result[i].embedding]
    IN /\ \A i \in 1..Len(rret[1].requests) : rret[1].requests[i] <= batch_size
       /\ rcall.mode = "full" =>
            vectors = [i \in 1..rcall.n |-> VectorOf(i)]

\* text w occurs in text s
Contains(s, w) == \E i \in 1..(Len(s) - Len(w) + 1) : SubSeq(s, i, i + Len(w) - 1) = w

\* C20: segmentation loses nothing: every sentence and every word of the
\* content appears in at least one chunk that chunk_content returns, for
\* every content, chunk_size and overlap
C20_NothingLost ==
  rret # <<>> /\ "content" \in DOMAIN rcall =>
    LET chunks == rret[1]
        sentences == SplitSentences(rcall.content)
        words == Split(rcall.content)
    IN /\ \A k \in 1..Len(words) :
            \E i \in 1..Len(chunks) : Contains(chunks[i], words[k])
       /\ \A k \in 1..Len(sentences) :
            Strip(sentences[k]) # <<>> =>
              \E i \in 1..Len(chunks) : Contains(chunks[i], Strip(sentences[k]))

\* s[:n] for n > 0
FirstChars(s, n) == SubSeq(s, 1, Min(n, Len(s)))

\* C21: overlap invariant: when overlap > 0 and chunk_content returns at
\* least two chunks, the first overlap characters of every returned chunk
\* after the first are the last overlap characters of the chunk returned
\* before it
C21_OverlapInvariant ==
  (rret # <<>> /\ "content" \in DOMAIN rcall /\ rcall.overlap > 0 /\ Len(rret[1]) >= 2) =>
    \A i \in 2..Len(rret[1]) :
      FirstChars(rret[1][i], rcall.overlap) = LastChars(rret[1][i - 1], rcall.overlap)

RECURSIVE WordsOf(_)
\* the words of the chunks, in the order of the chunks
WordsOf(chunks) ==
  IF chunks = <<>> THEN <<>> ELSE Split(Head(chunks)) \o WordsOf(Tail(chunks))

RECURSIVE IsSubsequence(_, _)
\* a is b with some entries left out
IsSubsequence(a, b) ==
  IF a = <<>> THEN TRUE
  ELSE IF b = <<>> THEN FALSE
  ELSE IF Head(a) = Head(b) THEN IsSubsequence(Tail(a), Tail(b))
  ELSE IsSubsequence(a, Tail(b))

\* C27: before the overlap step (overlap = 0 returns the chunks as they were
\* closed) the chunks follow the input and no sentence content is emitted a
\* second time: the words of the chunks, read in order, are words of the
\* content in the order of the content, each taken at most once
C27_NoSentenceTwice ==
  (rret # <<>> /\ "content" \in DOMAIN rcall /\ rcall.overlap = 0) =>
    IsSubsequence(WordsOf(rret[1]), Split(rcall.content))

\* C28 as stated: every chunk closed before the overlap step has at most
\* chunk_size characters
C28_ChunksBounded ==
  (rret # <<>> /\ "content" \in DOMAIN rcall /\ rcall.overlap = 0) =>
    \A i \in 1..Len(rret[1]) : Len(rret[1][i]) <= rcall.chunk_size

\* C28: every chunk closed before the overlap step has at most chunk_size
\* characters, or is one single word that is longer than chunk_size
C28_BoundedOrOneWord ==
  (rret # <<>> /\ "content" \in DOMAIN rcall /\ rcall.overlap = 0) =>
    \A i \in 1..Len(rret[1]) :
      \/ Len(rret[1][i]) <= rcall.chunk_size
      \/ NonSpace(rret[1][i]) = 1..Len(rret[1][i])

\* a sentence longer than chunk_size was split on its words, into a chunk
\* within chunk_size and a word that exceeds it
C28_Witness ==
  /\ rret # <<>> /\ "content" \in DOMAIN rcall /\ rcall.overlap = 0
  /\ Len(SplitSentences(rcall.content)) = 1
  /\ Len(rret[1]) = 2
  /\ Len(rret[1][1]) <= rcall.chunk_size
  /\ Len(rret[1][2]) > rcall.chunk_size

\* C24: upsert never loses earlier content: with no delete_collection since,
\* every content id that an add_embeddings call carried still has a point
\* whose original_content_id is that id
C24_EarlierContentKept ==
  \A c \in ContentIds : callsWith[c] > 0 => PointsOf(c) # {}

\* the names the claim calls required configuration values
ClaimedRequired == EnvVars

\* a request has been served
Served == \E i \in 1..Len(rret) : rret[i].event = "request"

\* the process stopped with a configuration error before the startup event
FailedOnConfig == rret # <<>> /\ rret[1].event = "ValueError"

\* C23 as stated: when any of the six values, the collection name among
\* them, is absent, the start fails with a configuration error and no
\* request is served
C23_SixRequired ==
  ("env" \in DOMAIN rcall /\ \E var \in ClaimedRequired : rcall.env[var] = Unset) =>
    /\ ~Served
    /\ rret # <<>> => FailedOnConfig

\* C23: when any of the five values in required_vars is absent or empty, the
\* start fails with a configuration error that names it, before the startup
\* event, and no request is ever served; an absent collection name is
\* replaced by "book_content" and does not stop the start
C23_FiveRequired ==
  "env" \in DOMAIN rcall =>
    LET missing == {var \in EnvVars \ {"QDRANT_COLLECTION_NAME"} : rcall.env[var] \in {Unset, ""}}
    IN /\ missing # {} =>
            /\ ~Served
            /\ rret # <<>> =>
                 /\ Len(rret) = 1
                 /\ FailedOnConfig
                 /\ {rret[1].errors[i] : i \in 1..Len(rret[1].errors)} = missing
       /\ (missing = {} /\ rret # <<>>) => rret[1].event = "configured"

\* a start with one required value absent has stopped on a configuration error
C23_Witness ==
  /\ "env" \in DOMAIN rcall
  /\ rcall.env["DATABASE_URL"] = Unset
  /\ \A var \in EnvVars \ {"DATABASE_URL"} : rcall.env[var] = "set"
  /\ FailedOnConfig

\* the vector a retrieval searches with for a query
QueryVector(query) ==
  IF query.query_embedding # <<>> THEN query.query_embedding[1]
  ELSE generate_query_embedding(<<query.query_text>>)

\* what the adapter returns for one search of the collection
AdapterResults(q, limit) == SearchSimilar(q, limit, FALSE, FALSE, points).results

\* the first n entries of a list, or all of them when there are fewer
FirstItems(list, n) == SubSeq(list, 1, Min(n, Len(list)))

\* plain and conversation-fused retrieval return one context per adapter hit,
\* in the adapter's order
HitsInAdapterOrder ==
  /\ (rcall.fn = "retrieve_context" /\ rret[1].status = "ok") =>
       rret[1].contexts =
         [i \in 1..Len(AdapterResults(QueryVector(rcall.query), rcall.top_k)) |->
            RetrievedContextOf(AdapterResults(QueryVector(rcall.query), rcall.top_k)[i])]
  /\ (rcall.fn = "retrieve_context_with_conversation_history" /\ rret[1].status = "ok") =>
       LET q == IF rret[1].fellBack THEN QueryVector(rcall.query)
                ELSE generate_query_embedding(EnhancedQuery(rcall.query.query_text, rcall.history))
           hits == AdapterResults(q, rcall.top_k)
       IN rret[1].contexts = [i \in 1..Len(hits) |-> RetrievedContextOf(hits[i])]

\* find_related_sections returns the first top_k hits of one search with
\* limit 2 * top_k that pass the test keep, in the adapter's order
RelatedAreFirstKept(keep(_)) ==
  (rcall.fn = "find_related_sections" /\ rret[1].status = "ok") =>
    LET hits == AdapterResults(QueryVector(rcall.query), 2 * rcall.top_k)
        kept == SelectSeq(hits, keep)
        first == FirstItems(kept, rcall.top_k)
    IN /\ rret[1].contexts = [i \in 1..Len(first) |-> RetrievedContextOf(first[i])]
       /\ Len(SelectSeq(rret[1].calls, LAMBDA call : call = "search")) = 1

\* C25 as stated: the engine only filters and truncates; find_related_sections
\* returns the first top_k hits whose section differs from the current_section
\* supplied
C25_FiltersBySection ==
  (rret # <<>> /\ "top_k" \in DOMAIN rcall) =>
    /\ HitsInAdapterOrder
    /\ RelatedAreFirstKept(LAMBDA hit :
         \/ rcall.current_section = None
         \/ PayloadGet(hit.payload, "section", "") # rcall.current_section)

\* C25: the engine only filters and truncates, never re-sorts;
\* find_related_sections returns the first top_k hits of its one search with
\* limit 2 * top_k, leaving out the hits of section current_section only when
\* a non-empty current_section is supplied
C25_FiltersByNonEmptySection ==
  (rret # <<>> /\ "top_k" \in DOMAIN rcall) =>
    /\ HitsInAdapterOrder
    /\ RelatedAreFirstKept(LAMBDA hit :
         \/ rcall.current_section \in {None, ""}
         \/ PayloadGet(hit.payload, "section", "") # rcall.current_section)

\* of three hits the best one is of the current section and is left out, and
\* of the two that remain only the first is returned
C25_Witness ==
  /\ rret # <<>>
  /\ rcall.fn = "find_related_sections"
  /\ rcall.top_k = 1
  /\ rcall.current_section = "Intro"
  /\ rret[1].status = "ok"
  /\ LET hits == AdapterResults(QueryVector(rcall.query), 2)
     IN /\ Len(hits) = 2
        /\ PayloadGet(hits[1].payload, "section", "") = "Intro"
        /\ rret[1].contexts = <<RetrievedContextOf(hits[2])>>

\* rows of user_queries of a session that other requests than request n saved
EarlierQueryRows(session_id, n) ==
  {i \in 1..Len(queries) : queries[i].session_id = session_id /\ queries[i].id # QueryUuid(n)}

\* C26: the history a turn has fetched, which it hands to the conversation-fused
\* retrieval and to the generator, holds only exchanges that earlier turns of
\* the session recorded: it has no entry for the query the turn itself saved
C26_HistoryIsPrior ==
  \A w \in Workers :
    turn[w].pc \in {"retrieve", "related", "generate", "save_response", "update_session"} =>
      Len(turn[w].history) <= Cardinality(EarlierQueryRows(turn[w].session_id, turn[w].n))

\* C29: in every row of conversation_sessions, under every interleaving of the
\* turns served at the same time, current_section is null or one of the
\* row's section_history
C29_CurrentSectionInHistory ==
  \A sid \in DOMAIN sessions :
    \/ sessions[sid].current_section = None
    \/ \E i \in 1..Len(sessions[sid].section_history) :
         sessions[sid].section_history[i] = sessions[sid].current_section

\* two turns served at the same time on one session are done with different
\* contexts, and the row's current section is the last entry of its history
C29_Witness ==
  \E w1, w2 \in Workers :
    /\ w1 # w2
    /\ turn[w1].pc = "done" /\ turn[w2].pc = "done"
    /\ turn[w1].session_id = turn[w2].session_id
    /\ turn[w1].result[1].source_context # turn[w2].result[1].source_context
    /\ sessions[turn[w1].session_id].current_section = "Body"
    /\ sessions[turn[w1].session_id].section_history = <<"Intro", "Body">>

\* the chunk ids a served ingestion request produced and wrote to the store
ChunkIdsOf(run) == {run.upserted[i] : i \in 1..Len(run.upserted)}

\* C22: no chunk id that an ingestion request, single or bulk, produces and
\* writes is one that an earlier ingestion request produced and wrote
C22_FreshChunkIds ==
  \A i, j \in 1..Len(rret) :
    (i < j /\ "upserted" \in DOMAIN rret[i] /\ "upserted" \in DOMAIN rret[j]) =>
      ChunkIdsOf(rret[i]) \cap ChunkIdsOf(rret[j]) = {}

\* C30: a bulk ingestion of a directory that yields no content is answered
\* with HTTP 400, not 500, and hands nothing to the vector store
C30_NoContentIs400 ==
  (rret # <<>> /\ "docs_path" \in DOMAIN rcall /\ process_docusaurus_docs(rcall.docs_path) = <<>>) =>
    /\ rret[Len(rret)].status_code = 400
    /\ rret[Len(rret)].upserted = <<>>

====
